---------------------------- MODULE Spec2Model ----------------------------
(***************************************************************************)
(* A model of the migrator engine (github.com/hasirciogluhq/migrator):     *)
(* the Tracker (tracking relation _go_migrations, transactional apply),    *)
(* the Validator (files on disk against applied names), the shadow         *)
(* database Manager and the Migrator.Migrate workflow.                     *)
(*                                                                         *)
(* The PostgreSQL server is modelled by two databases, production and the  *)
(* shadow database <production>_gi_mig_shadow_db.  A database holds the    *)
(* tracking relation and the schema objects the change scripts created.    *)
(* A transaction keeps its effects to itself until it commits; a rollback  *)
(* discards them.  applied_at is CURRENT_TIMESTAMP, the start time of the  *)
(* inserting transaction: the field rows of a database is the time line of *)
(* its transactions in start order, committed ones being the rows of the   *)
(* tracking relation.                                                      *)
(*                                                                         *)
(* A change name is a number: name n stands for a file "00n_....sql" and   *)
(* the order of the numbers is the lexicographic order of the file names.  *)
(***************************************************************************)
EXTENDS Integers, Sequences, FiniteSets, TLC

\* Number of change names the file system may hold.
MaxNames == 2

Names == 1..MaxNames

\* The callers: a sequential program has one, the concurrent test two.
AllProcs == {1, 2}
SeqProcs == {1}
ConcProcs == {1, 2}

\* What a change script does when it is executed as one statement batch:
\*   "create"  CREATE TABLE t_n (...): fails when t_n exists already;
\*   "syntax"  a script with a syntax error: fails on every database;
\*   "data"    a script that fails on production's rows only (the shadow
\*             database is schema-accurate but empty);
\*   "dml"     a repeatable batch that creates no schema object.
Kinds == {"create", "syntax", "data", "dml"}
\* What a directory entry can be besides a change file: "other" is an entry
\* whose name does not end in ".sql" (a README, a backup copy), "dir" a
\* directory whose name ends in ".sql".
EntryKinds == {"create", "other", "dir"}
\* The kinds of script the change files of the migrations directory hold.
FileKinds == {"create", "syntax", "data"}
\* A directory entry that is absent.
NoFile == "none"

\* The directory the change files are kept in, and the default "./migrations".
CustomPath == "/db/migrations"
DefaultPath == "./migrations"
\* The connection string of the production database.
ProdURL == "postgres://u:p@host:5432/app"

VARIABLES
    opts,       \* the Options value given to NewWithOptions
    env,        \* the process environment: MIGRATIONS_PATH, DATABASE_URL
    files,      \* the entries of CustomPath: name -> kind of script or entry, or NoFile
    prod,       \* the production database
    shadow,     \* the shadow database (addressed by its name by every caller)
    mgr,        \* Migrator.shadowManager # nil, per caller
    mpath,      \* Migrator.migrationsPath (and Validator.migrationsPath), per caller
    pc,         \* where each caller is in its current call
    op,         \* the API call each caller is in
    mfiles,     \* migrationFiles of Migrate / GetPendingMigrations
    newm,       \* newMigrations
    replay,     \* appliedMigrations of applyExistingMigrationsToShadow
    idx,        \* the loop index of the loop the caller is in
    tx,         \* the *sql.Tx of ApplyMigration
    perr,       \* the error TestNewMigrations is returning while its defer runs
    result,     \* the value the last call returned
    snap,       \* production as it was when the current call started
    run,        \* what the current call has done so far
    prevOK,     \* the previous Migrate succeeded and no file changed since
    prevFail,   \* the change the previous Migrate failed to apply to production, or 0
    ctx,        \* the context.Context of the current call: live, cancelled or past
                \* the deadline of applyMigrationWithTimeout
    dropOK,     \* the server executes DROP DATABASE of the shadow database
    dsn,        \* Manager.databaseURL, character by character; <<>> before NewWithURL
    issued      \* the connections opened and DDL statements sent by the Manager

vars == <<opts, env, files, prod, shadow, mgr, mpath, pc, op, mfiles, newm,
          replay, idx, tx, perr, result, snap, run, prevOK, prevFail, ctx,
          dropOK, dsn, issued>>

-----------------------------------------------------------------------------
(* Sequences and sets *)

Range(s) == {s[i] : i \in 1..Len(s)}

Min(S) == CHOOSE x \in S : \A y \in S : x <= y

\* A directory listing in descending order of file name.
RECURSIVE SortedSeqDescending(_)
SortedSeqDescending(S) ==
    IF S = {} THEN <<>>
    ELSE LET m == CHOOSE x \in S : \A y \in S : y <= x
         IN <<m>> \o SortedSeqDescending(S \ {m})

\* The elements of a set of names in ascending order.
RECURSIVE SortedSeq(_)
SortedSeq(S) == IF S = {} THEN <<>> ELSE <<Min(S)>> \o SortedSeq(S \ {Min(S)})

-----------------------------------------------------------------------------
(* The file system *)

\* os.ReadDir(path): the entries of the directory, sorted by file name.
ReadDir(path) ==
    IF path = CustomPath THEN SortedSeq({n \in DOMAIN files : files[n] # NoFile}) ELSE <<>>

\* os.ReadFile(path + "/" + name): the script, or NoFile when the read fails.
ReadFile(path, n) == IF path = CustomPath /\ files[n] # "dir" THEN files[n] ELSE NoFile

\* strings.HasSuffix(file.Name(), ".sql") for entry n of the directory.
HasSuffixSQL(path, n) == ReadFile(path, n) # "other"


-----------------------------------------------------------------------------
(* A database *)

\* A database that does not exist (or has just been created).
EmptyDB(e) == [exists |-> e, table |-> FALSE, rows |-> <<>>, objs |-> {}]

DB(d) == IF d = "prod" THEN prod ELSE shadow

\* The rows of the tracking relation other transactions can see.
Committed(db) == SelectSeq(db.rows, LAMBDA r : r.by = 0)

\* The name column of the committed rows of db, in the order of the rows.
TrackerNames(db) == [i \in 1..Len(Committed(db)) |-> Committed(db)[i].name]


\* A listing of the applied names in name order: ORDER BY name.
GetAppliedMigrationsByName(db) ==
    SortedSeq({db.rows[i].name : i \in {j \in 1..Len(db.rows) : db.rows[j].by = 0}})

\* SELECT name FROM _go_migrations ORDER BY applied_at
GetAppliedMigrations(db) == [i \in 1..Len(Committed(db)) |-> Committed(db)[i].name]

\* An IsApplied that reports no name as applied.
IsAppliedNever(db, n) == FALSE

\* An IsApplied that reports every name as applied.
IsAppliedAlways(db, n) == TRUE

\* IsApplied with the comparison count > 1 in place of count > 0.
IsAppliedOffByOne(db, n) ==
    Cardinality({i \in 1..Len(db.rows) : db.rows[i].by = 0 /\ db.rows[i].name = n}) > 1

\* SELECT COUNT(*) FROM _go_migrations WHERE name = $1, count > 0
IsApplied(db, n) == \E i \in 1..Len(db.rows) : db.rows[i].by = 0 /\ db.rows[i].name = n


-----------------------------------------------------------------------------
(* Values *)

NoTx == [db |-> "none", name |-> 0, content |-> NoFile, caller |-> "none",
         alive |-> FALSE, objs |-> {}, ins |-> FALSE]

NoErr == [cause |-> "", names |-> <<>>]

NoResult == [status |-> "none", cause |-> "", names |-> <<>>]

Ok(names) == [status |-> "ok", cause |-> "", names |-> names]

Err(status, cause, names) == [status |-> status, cause |-> cause, names |-> names]

\* What dropDatabaseIfExists found under the name of the shadow database.
Leftover(db) == [found |-> db.exists, rows |-> Committed(db), objs |-> db.objs]

NoLeftover == [found |-> FALSE, rows |-> <<>>, objs |-> {}]

\* What a call has done so far: it was started right after a successful Migrate
\* with the files unchanged (again) and with a shadow manager built before
\* (manager), it created the shadow database
\* (provisioned), the names it ran ApplyMigration with on the shadow database
\* (shadowOps) and those that failed there while being tested (shadowFailed),
\* the names whose script it executed on production (execd) and committed
\* there (applied), it printed the missing-URL warning (warned), and the
\* script a direct call of ApplyMigration was given (script); the change
\* the previous Migrate failed to apply (retry, 0 for none), whether
\* TestNewMigrations was called (shadowStarted) and whether EnsureCleanup
\* was (finalCleanup); the new migrations, name and script, that
\* testMigrationsOnShadow applied to the shadow database (tested), and the
\* shadow database setupShadowDatabase found and dropped (leftover); a drop
\* of the deferred cleanup or of EnsureCleanup failed (dropFailed); the names
\* the tracker of the shadow database held when testMigrationsOnShadow
\* returned nil (atPass).
NoRun == [again |-> FALSE, manager |-> FALSE, provisioned |-> FALSE, shadowOps |-> {}, shadowFailed |-> {},
          execd |-> {}, applied |-> <<>>, warned |-> FALSE, script |-> NoFile,
          retry |-> 0, shadowStarted |-> FALSE, finalCleanup |-> FALSE, tested |-> {},
          leftover |-> NoLeftover, dropFailed |-> FALSE, atPass |-> <<>>]

Snapshot(db) == [rows |-> Committed(db), objs |-> db.objs, table |-> db.table]

-----------------------------------------------------------------------------
(* The constructor *)

\* NewWithOptions: the migrations path from the options, else MIGRATIONS_PATH,
\* else "./migrations".
NewMigrationsPath(o, e) ==
    IF o.MigrationsPath # "" THEN o.MigrationsPath
    ELSE IF e.MIGRATIONS_PATH # "" THEN e.MIGRATIONS_PATH
    ELSE DefaultPath

\* NewWithOptions: the database URL from the options, else DATABASE_URL.
NewDatabaseURL(o, e) == IF o.DatabaseURL # "" THEN o.DatabaseURL ELSE e.DATABASE_URL

\* NewWithOptions: the shadow manager is built when there is a database URL.
\* Options.SkipShadowDB is not read.
NewShadowManager(o, e) == NewDatabaseURL(o, e) # ""

\* applyExistingMigrationsToShadow: the directory the replay reads scripts from.
ReplayPath(e) == IF e.MIGRATIONS_PATH # "" THEN e.MIGRATIONS_PATH ELSE DefaultPath

OptionsSet == [MigrationsPath : {"", CustomPath}, DatabaseURL : {"", ProdURL},
               SkipShadowDB : BOOLEAN]

EnvSet == [MIGRATIONS_PATH : {"", CustomPath}, DATABASE_URL : {"", ProdURL}]

\* The state after construction, given the options, the environment and the files.
InitWith(o, e, f) ==
    /\ opts = o
    /\ env = e
    /\ files = f
    /\ prod = EmptyDB(TRUE)
    /\ shadow = EmptyDB(FALSE)
    /\ mgr = [p \in AllProcs |-> NewShadowManager(o, e)]
    /\ mpath = [p \in AllProcs |-> NewMigrationsPath(o, e)]
    /\ pc = [p \in AllProcs |-> "idle"]
    /\ op = [p \in AllProcs |-> "none"]
    /\ mfiles = [p \in AllProcs |-> <<>>]
    /\ newm = [p \in AllProcs |-> <<>>]
    /\ replay = [p \in AllProcs |-> <<>>]
    /\ idx = [p \in AllProcs |-> 1]
    /\ tx = [p \in AllProcs |-> NoTx]
    /\ perr = [p \in AllProcs |-> NoErr]
    /\ result = [p \in AllProcs |-> NoResult]
    /\ snap = [p \in AllProcs |-> Snapshot(EmptyDB(TRUE))]
    /\ run = [p \in AllProcs |-> NoRun]
    /\ prevOK = [p \in AllProcs |-> FALSE]
    /\ prevFail = [p \in AllProcs |-> 0]
    /\ ctx = [p \in AllProcs |-> "live"]
    /\ dropOK = TRUE
    /\ dsn = <<>>
    /\ issued = {}

\* A program with any options and environment, and a migrations directory
\* that is empty to begin with.
Init == \E o \in OptionsSet, e \in EnvSet : InitWith(o, e, [n \in Names |-> NoFile])

-----------------------------------------------------------------------------
(* Returning from a call *)

\* A database layer that ignores the context it is given.
CancelledNever(p) == FALSE

\* ctx.Err() # nil: a database operation that is given the context of caller
\* p returns the context's error and does nothing.
Cancelled(p) == ctx[p] # "live"

\* The call of caller p returns res.
Finish(p, res) ==
    /\ pc' = [pc EXCEPT ![p] = "done"]
    /\ result' = [result EXCEPT ![p] = res]
    /\ prevOK' = IF op[p] = "Migrate"
                 THEN [prevOK EXCEPT ![p] = (res.status = "ok")]
                 ELSE prevOK
    /\ prevFail' = IF op[p] = "Migrate"
                   THEN [prevFail EXCEPT ![p] =
                           IF /\ res.status = "failed to apply migrations"
                              /\ res.cause # "failed to check migration"
                           THEN res.names[1] ELSE 0]
                   ELSE prevFail

\* Control moves to label l of the same call.
Goto(p, l) ==
    /\ pc' = [pc EXCEPT ![p] = l]
    /\ UNCHANGED <<result, prevOK, prevFail>>

-----------------------------------------------------------------------------
(* Tracker.ApplyMigration: one transaction *)

\* Transactions that are all sent to the production database.
SetDBProduction(d, v) == prod' = v /\ UNCHANGED shadow

\* The database a transaction writes to is the one its Tracker was built on.
SetDB(d, v) ==
    IF d = "prod" THEN prod' = v /\ UNCHANGED shadow ELSE shadow' = v /\ UNCHANGED prod

\* tx.Commit(): the objects the script created and the tracking row inserted
\* become visible together.
Commit(db, p, t) ==
    [db EXCEPT !.objs = db.objs \cup t.objs,
               !.rows = IF t.ins
                        THEN [i \in DOMAIN db.rows |->
                                 IF db.rows[i].by = p
                                 THEN [db.rows[i] EXCEPT !.by = 0]
                                 ELSE db.rows[i]]
                        ELSE SelectSeq(db.rows, LAMBDA r : r.by # p)]

\* A deferred function that commits where it should roll back.
RollbackCommits(db, p) == Commit(db, p, tx[p])

\* tx.Rollback(): the transaction of p leaves nothing behind.
Rollback(db, p) == [db EXCEPT !.rows = SelectSeq(db.rows, LAMBDA r : r.by # p)]

\* A tracking relation whose name column is not declared UNIQUE.
NameTakenNever(db, n) == FALSE

\* name VARCHAR(255) NOT NULL UNIQUE: an insert of name n violates the
\* constraint when a committed row holds n.
NameTaken(db, n) == \E i \in 1..Len(db.rows) : db.rows[i].by = 0 /\ db.rows[i].name = n

\* The outcome of executing a script of kind c for name n on database d:
\* TRUE when the batch succeeds.
ScriptSucceeds(d, db, n, c) ==
    CASE c = "create" -> n \notin db.objs
      [] c = "syntax" -> FALSE
      [] c = "data"   -> d # "prod"
      [] OTHER        -> TRUE

\* The objects a script of kind c for name n creates.
ScriptObjects(n, c) == IF c = "create" THEN {n} ELSE {}

\* A statement that waits as long as the object it creates exists, committed
\* or not.
ExecBlockedByExisting(p) ==
    \/ \E q \in AllProcs \ {p} :
          /\ tx[q].db = tx[p].db /\ tx[q].alive
          /\ ScriptObjects(tx[p].name, tx[p].content) \cap tx[q].objs # {}
    \/ ScriptObjects(tx[p].name, tx[p].content) \cap DB(tx[p].db).objs # {}

\* The statement of p has to wait for the open transaction of another caller
\* that created the same object, or inserted the same name, and has not ended.
ExecBlocked(p) ==
    \E q \in AllProcs \ {p} :
        /\ tx[q].db = tx[p].db /\ tx[q].alive
        /\ ScriptObjects(tx[p].name, tx[p].content) \cap tx[q].objs # {}

InsertBlocked(p) ==
    \E q \in AllProcs \ {p} :
        /\ tx[q].db = tx[p].db /\ tx[q].alive
        /\ tx[q].ins /\ tx[q].name = tx[p].name

\* What the call has done, after ApplyMigration(n) on database d returned err
\* to the given caller; executed tells whether the script was sent.
RunAfter(r, d, caller, n, executed, err) ==
    [r EXCEPT
       !.shadowOps = IF d = "shadow" THEN @ \cup {n} ELSE @,
       !.shadowFailed = IF d = "shadow" /\ caller = "test" /\ err # "" THEN @ \cup {n} ELSE @,
       !.execd = IF d = "prod" /\ executed THEN @ \cup {n} ELSE @,
       !.applied = IF d = "prod" /\ err = "" THEN Append(@, n) ELSE @]

\* What the call has done, after the transaction t of testMigrationsOnShadow
\* was committed on the shadow database.
Tested(r, t) ==
    [r EXCEPT !.tested = IF t.db = "shadow" /\ t.caller = "test"
                         THEN @ \cup {[Name |-> t.name, Content |-> t.content]} ELSE @]

\* A shadow test that reports the failure of a migration and returns nil.
ShadowTestErrorDropped(n) == NoErr

\* testMigrationsOnShadow: the error returned when migration n fails on the
\* shadow database.
ShadowTestError(n) == [cause |-> "failed to test migrations on shadow", names |-> <<n>>]

\* Loops that go on to the next change whatever ApplyMigration returned.
TxReturnIgnoresError(p, caller, n, err) ==
    /\ Goto(p, CASE caller = "replay" -> "s_replay"
                 [] caller = "test" -> "s_test"
                 [] OTHER -> "m_apply")
    /\ idx' = [idx EXCEPT ![p] = @ + 1]
    /\ UNCHANGED perr

\* ApplyMigration returns err ("" for nil) to the loop it was called from.
TxReturn(p, caller, n, err) ==
    CASE caller = "replay" ->
           IF err = ""
           THEN Goto(p, "s_replay") /\ idx' = [idx EXCEPT ![p] = @ + 1] /\ UNCHANGED perr
           ELSE /\ Goto(p, "s_cleanup")
                /\ perr' = [perr EXCEPT ![p] =
                     [cause |-> "failed to apply existing migrations to shadow",
                      names |-> <<n>>]]
                /\ UNCHANGED idx
      [] caller = "test" ->
           IF err = ""
           THEN Goto(p, "s_test") /\ idx' = [idx EXCEPT ![p] = @ + 1] /\ UNCHANGED perr
           ELSE /\ Goto(p, "s_cleanup")
                /\ perr' = [perr EXCEPT ![p] = ShadowTestError(n)]
                /\ UNCHANGED idx
      [] caller = "apply" ->
           IF err = ""
           THEN Goto(p, "m_apply") /\ idx' = [idx EXCEPT ![p] = @ + 1] /\ UNCHANGED perr
           ELSE /\ Finish(p, Err("failed to apply migrations", err, <<n>>))
                /\ UNCHANGED <<idx, perr>>
      [] OTHER ->
           /\ Finish(p, IF err = "" THEN Ok(<<n>>) ELSE Err(err, err, <<n>>))
           /\ UNCHANGED <<idx, perr>>

\* t.db.BeginTx and the call of ApplyMigration(n, c) on database d.
BeginTx(p, d, n, c, caller) ==
    IF DB(d).exists /\ ~Cancelled(p)
    THEN /\ SetDB(d, [DB(d) EXCEPT !.rows = Append(@, [name |-> n, by |-> p])])
         /\ tx' = [tx EXCEPT ![p] = [db |-> d, name |-> n, content |-> c, caller |-> caller,
                                     alive |-> TRUE, objs |-> {}, ins |-> FALSE]]
         /\ Goto(p, "t_exec")
         /\ UNCHANGED <<idx, perr, run>>
    ELSE /\ TxReturn(p, caller, n, "failed to begin transaction")
         /\ run' = [run EXCEPT ![p] =
                      RunAfter(@, d, caller, n, FALSE, "failed to begin transaction")]
         /\ UNCHANGED <<prod, shadow, tx>>

\* ApplyMigration fails with err: the deferred rollback runs and err is returned.
TxFail(p, executed, err) ==
    LET t == tx[p] IN
    /\ IF t.alive THEN SetDB(t.db, Rollback(DB(t.db), p)) ELSE UNCHANGED <<prod, shadow>>
    /\ tx' = [tx EXCEPT ![p] = NoTx]
    /\ run' = [run EXCEPT ![p] = RunAfter(@, t.db, t.caller, t.name, executed, err)]
    /\ TxReturn(p, t.caller, t.name, err)

\* tx.ExecContext(ctx, content)
T_Exec(p) ==
    /\ pc[p] = "t_exec"
    /\ LET t == tx[p] IN
       IF ~t.alive \/ Cancelled(p) THEN TxFail(p, FALSE, "failed to execute migration")
       ELSE /\ ~ExecBlocked(p)
            /\ IF ScriptSucceeds(t.db, DB(t.db), t.name, t.content)
               THEN /\ tx' = [tx EXCEPT ![p].objs = ScriptObjects(t.name, t.content)]
                    /\ run' = [run EXCEPT ![p].execd =
                                 IF t.db = "prod" THEN @ \cup {t.name} ELSE @]
                    /\ Goto(p, "t_insert")
                    /\ UNCHANGED <<prod, shadow, idx, perr>>
               ELSE TxFail(p, TRUE, "failed to execute migration")
    /\ UNCHANGED <<opts, dropOK, dsn, issued, ctx, env, files, mgr, mpath, op, mfiles, newm, replay, snap>>

\* tx.ExecContext(ctx, "INSERT INTO _go_migrations (name) VALUES ($1)", name)
T_Insert(p) ==
    /\ pc[p] = "t_insert"
    /\ LET t == tx[p] IN
       IF ~t.alive \/ Cancelled(p) THEN TxFail(p, FALSE, "failed to record migration")
       ELSE /\ ~InsertBlocked(p)
            /\ IF DB(t.db).table /\ ~NameTaken(DB(t.db), t.name)
               THEN /\ tx' = [tx EXCEPT ![p].ins = TRUE]
                    /\ Goto(p, "t_commit")
                    /\ UNCHANGED <<prod, shadow, idx, perr, run>>
               ELSE TxFail(p, FALSE, "failed to record migration")
    /\ UNCHANGED <<opts, dropOK, dsn, issued, ctx, env, files, mgr, mpath, op, mfiles, newm, replay, snap>>

\* tx.Commit()
T_Commit(p) ==
    /\ pc[p] = "t_commit"
    /\ LET t == tx[p] IN
       IF ~t.alive \/ Cancelled(p) THEN TxFail(p, FALSE, "failed to commit migration")
       ELSE /\ SetDB(t.db, Commit(DB(t.db), p, t))
            /\ tx' = [tx EXCEPT ![p] = NoTx]
            /\ run' = [run EXCEPT ![p] =
                         Tested(RunAfter(@, t.db, t.caller, t.name, FALSE, ""), t)]
            /\ TxReturn(p, t.caller, t.name, "")
    /\ UNCHANGED <<opts, dropOK, dsn, issued, ctx, env, files, mgr, mpath, op, mfiles, newm, replay, snap>>

-----------------------------------------------------------------------------
(* The shadow database on the server *)

\* pg_terminate_backend on the sessions of the shadow database: an open
\* transaction on it is gone, and its next statement fails.
TerminateShadowSessions ==
    [q \in AllProcs |-> IF tx[q].db = "shadow" THEN [tx[q] EXCEPT !.alive = FALSE] ELSE tx[q]]

\* A dropDatabaseIfExists that leaves the database where it is.
DropShadowSkipped == UNCHANGED <<shadow, tx>>

\* DROP DATABASE IF EXISTS returns an error: the database exists and the
\* server refuses to drop it.
DropFails == shadow.exists /\ ~dropOK

\* dropDatabaseIfExists(shadowDBName): terminate the sessions, DROP DATABASE IF EXISTS.
DropShadow ==
    /\ shadow' = IF DropFails THEN shadow ELSE EmptyDB(FALSE)
    /\ tx' = TerminateShadowSessions

-----------------------------------------------------------------------------
(* Migrator.Migrate, GetAppliedMigrations, GetPendingMigrations *)

Ops == {"Migrate", "GetAppliedMigrations", "GetPendingMigrations"}

\* A caller starts an API call.  Every one of them begins with
\* EnsureMigrationsTable.
Start(p, o) ==
    /\ pc[p] = "idle"
    /\ op' = [op EXCEPT ![p] = o]
    /\ pc' = [pc EXCEPT ![p] = "m_ensure"]
    /\ snap' = [snap EXCEPT ![p] = Snapshot(prod)]
    /\ run' = [run EXCEPT ![p] = [NoRun EXCEPT !.again = (o = "Migrate" /\ prevOK[p]),
                                               !.manager = mgr[p],
                                               !.retry = IF o = "Migrate" THEN prevFail[p]
                                                         ELSE 0]]
    /\ UNCHANGED <<opts, dropOK, dsn, issued, ctx, env, files, prod, shadow, mgr, mpath, mfiles, newm, replay,
                   idx, tx, perr, result, prevOK, prevFail>>

\* A tracking relation that is dropped and created again on every call.
EnsureMigrationsTableRecreate(db) == [db EXCEPT !.table = TRUE, !.rows = <<>>]

\* An EnsureMigrationsTable that creates nothing.
EnsureMigrationsTableSkipped(db) == db

\* Tracker.EnsureMigrationsTable: CREATE TABLE IF NOT EXISTS _go_migrations.
EnsureMigrationsTable(db) == [db EXCEPT !.table = TRUE]

\* Step 1 of Migrate, the first step of the two read-only calls, and the whole
\* of a direct call of Tracker.EnsureMigrationsTable.
M_Ensure(p) ==
    /\ pc[p] = "m_ensure"
    /\ IF Cancelled(p)
       THEN /\ Finish(p, Err("failed to ensure migrations table", ctx[p], <<>>))
            /\ UNCHANGED prod
       ELSE /\ prod' = EnsureMigrationsTable(prod)
            /\ CASE op[p] = "Migrate" -> Goto(p, "m_validate")
                 [] op[p] = "GetAppliedMigrations" -> Goto(p, "g_list")
                 [] op[p] = "GetPendingMigrations" -> Goto(p, "m_load")
                 [] OTHER -> Finish(p, Ok(<<>>))
    /\ UNCHANGED <<opts, dropOK, dsn, issued, ctx, env, files, shadow, mgr, mpath, op, mfiles, newm, replay, idx,
                   tx, perr, snap, run>>

\* GetAppliedMigrations returns tracker.GetAppliedMigrations.
G_List(p) ==
    /\ pc[p] = "g_list"
    /\ IF Cancelled(p)
       THEN Finish(p, Err("failed to get applied migrations", ctx[p], <<>>))
       ELSE Finish(p, Ok(GetAppliedMigrations(prod)))
    /\ UNCHANGED <<opts, dropOK, dsn, issued, ctx, env, files, prod, shadow, mgr, mpath, op, mfiles, newm, replay,
                   idx, tx, perr, snap, run>>

\* A validation that looks the applied names up among the applied names.
MissingMigrationsAmongApplied(applied, dir) ==
    SelectSeq(applied, LAMBDA n : n \notin Range(applied))

\* A validation that reports the first missing name only.
MissingMigrationsFirstOnly(applied, dir) ==
    LET all == SelectSeq(applied, LAMBDA n : n \notin Range(dir))
    IN IF all = <<>> THEN <<>> ELSE <<all[1]>>

\* Validator.ValidateExistingMigrations: the applied names that have no .sql
\* file in the migrations directory, in the order GetAppliedMigrations gives.
MissingMigrations(applied, dir) ==
    SelectSeq(applied, LAMBDA n : n \notin Range(dir))

\* A lookup table that holds regular files only.
FsFilesRegularOnly(path) ==
    SelectSeq(ReadDir(path), LAMBDA n : HasSuffixSQL(path, n) /\ ReadFile(path, n) # NoFile)

\* ValidateExistingMigrations, fsFiles: the entries of the directory whose name
\* ends in ".sql", whatever they are.
FsFiles(path) == SelectSeq(ReadDir(path), LAMBDA n : HasSuffixSQL(path, n))

\* Step 2 of Migrate.
M_Validate(p) ==
    /\ pc[p] = "m_validate"
    /\ LET missing == MissingMigrations(GetAppliedMigrations(prod), FsFiles(mpath[p])) IN
       IF Cancelled(p)
       THEN Finish(p, Err("migration validation failed",
                          "failed to get applied migrations", <<>>))
       ELSE IF Len(missing) > 0
       THEN Finish(p, Err("migration validation failed",
                          "applied migrations are missing from filesystem", missing))
       ELSE Goto(p, "m_load")
    /\ UNCHANGED <<opts, dropOK, dsn, issued, ctx, env, files, prod, shadow, mgr, mpath, op, mfiles, newm, replay,
                   idx, tx, perr, snap, run>>

\* A loader that finds no file.
GetMigrationFilesNone(path) == <<>>

\* Validator.GetMigrationFiles: one MigrationFile per directory entry whose
\* name ends in ".sql", in the order of os.ReadDir; the Content of an entry
\* that cannot be read is NoFile.
GetMigrationFiles(path) ==
    LET dir == SelectSeq(ReadDir(path), LAMBDA n : HasSuffixSQL(path, n)) IN
    [i \in 1..Len(dir) |-> [Name |-> dir[i], Content |-> ReadFile(path, dir[i])]]

\* Step 3 of Migrate: GetMigrationFiles returns the list, or the error of the
\* first entry createMigrationFile cannot read.
M_Load(p) ==
    /\ pc[p] = "m_load"
    /\ LET fs == GetMigrationFiles(mpath[p])
           bad == SelectSeq(fs, LAMBDA f : f.Content = NoFile)
       IN IF bad # <<>>
          THEN /\ Finish(p, Err("failed to get migration files",
                                "failed to create migration file", <<bad[1].Name>>))
               /\ UNCHANGED <<mfiles, newm, idx>>
          ELSE /\ mfiles' = [mfiles EXCEPT ![p] = fs]
               /\ newm' = [newm EXCEPT ![p] = <<>>]
               /\ idx' = [idx EXCEPT ![p] = 1]
               /\ Goto(p, "m_findnew")
    /\ UNCHANGED <<opts, dropOK, dsn, issued, ctx, env, files, prod, shadow, mgr, mpath, op, replay, tx, perr,
                   snap, run>>

\* A Migrate that never runs the shadow test.
ShadowManagerAtTestNever(m, e) == FALSE

\* A Migrate that builds the shadow manager whether or not there is a URL.
ShadowManagerAtTestAlways(m, e) == TRUE

\* Step 5 of Migrate, up to the call of TestNewMigrations: whether the shadow
\* test runs.  A nil shadow manager is built now when DATABASE_URL is set.
ShadowManagerAtTest(m, e) == m \/ e.DATABASE_URL # ""

\* Step 4 of Migrate, validator.FindNewMigrations: one IsApplied query per
\* file; at the end of the list, for Migrate, step 5 up to the shadow test.
M_FindNew(p) ==
    /\ pc[p] = "m_findnew"
    /\ IF idx[p] <= Len(mfiles[p]) /\ Cancelled(p)
       THEN /\ Finish(p, Err("failed to find new migrations", "failed to check migration",
                             <<mfiles[p][idx[p]].Name>>))
            /\ UNCHANGED <<newm, idx, mgr, run>>
       ELSE IF idx[p] <= Len(mfiles[p])
       THEN /\ newm' = [newm EXCEPT ![p] =
                          IF IsApplied(prod, mfiles[p][idx[p]].Name)
                          THEN @ ELSE Append(@, mfiles[p][idx[p]])]
            /\ idx' = [idx EXCEPT ![p] = @ + 1]
            /\ Goto(p, "m_findnew")
            /\ UNCHANGED <<mgr, run>>
       ELSE IF op[p] = "GetPendingMigrations"
       THEN /\ Finish(p, Ok([i \in 1..Len(newm[p]) |-> newm[p][i].Name]))
            /\ UNCHANGED <<newm, idx, mgr, run>>
       ELSE IF Len(newm[p]) > 0
       THEN /\ mgr' = [mgr EXCEPT ![p] = ShadowManagerAtTest(@, env)]
            /\ run' = [run EXCEPT ![p].warned = ~mgr'[p], ![p].shadowStarted = mgr'[p]]
            /\ idx' = [idx EXCEPT ![p] = 1]
            /\ Goto(p, IF mgr'[p] THEN "s_drop" ELSE "m_apply")
            /\ UNCHANGED newm
       ELSE /\ idx' = [idx EXCEPT ![p] = 1]
            /\ Goto(p, "m_apply")
            /\ UNCHANGED <<newm, mgr, run>>
    /\ UNCHANGED <<opts, dropOK, dsn, issued, ctx, env, files, prod, shadow, mpath, op, mfiles, replay, tx, perr, snap>>

-----------------------------------------------------------------------------
(* Manager.TestNewMigrations *)

ShadowError(e) == Err("shadow database test failed", e.cause, e.names)

\* getCurrentDatabaseName, then setupShadowDatabase: drop the shadow database
\* a previous run left.
S_Drop(p) ==
    /\ pc[p] = "s_drop"
    /\ IF Cancelled(p)
       THEN /\ Finish(p, ShadowError([cause |-> "failed to get current database name",
                                      names |-> <<>>]))
            /\ UNCHANGED <<shadow, tx>>
            /\ UNCHANGED run
       ELSE IF DropFails
       THEN /\ Finish(p, ShadowError([cause |-> "failed to setup shadow database",
                                      names |-> <<>>]))
            /\ DropShadow
            /\ UNCHANGED run
       ELSE /\ DropShadow
            /\ run' = [run EXCEPT ![p].leftover = Leftover(shadow)]
            /\ Goto(p, "s_create")
    /\ UNCHANGED <<opts, dropOK, dsn, issued, ctx, env, files, prod, mgr, mpath, op, mfiles, newm, replay, idx,
                   perr, snap>>

\* setupShadowDatabase: CREATE DATABASE, which fails when the database exists.
\* On failure no cleanup function is returned, so none is deferred.
S_Create(p) ==
    /\ pc[p] = "s_create"
    /\ IF shadow.exists \/ Cancelled(p)
       THEN /\ Finish(p, ShadowError([cause |-> "failed to setup shadow database",
                                      names |-> <<>>]))
            /\ UNCHANGED <<shadow, run>>
       ELSE /\ shadow' = EmptyDB(TRUE)
            /\ run' = [run EXCEPT ![p].provisioned = TRUE]
            /\ Goto(p, "s_ensure")
    /\ UNCHANGED <<opts, dropOK, dsn, issued, ctx, env, files, prod, mgr, mpath, op, mfiles, newm, replay, idx,
                   tx, perr, snap>>

\* shadowTracker.EnsureMigrationsTable, then mainTracker.GetAppliedMigrations.
S_Ensure(p) ==
    /\ pc[p] = "s_ensure"
    /\ IF shadow.exists /\ ~Cancelled(p)
       THEN /\ shadow' = EnsureMigrationsTable(shadow)
            /\ Goto(p, "s_list")
            /\ UNCHANGED perr
       ELSE /\ perr' = [perr EXCEPT ![p] =
                  [cause |-> "failed to create migrations table in shadow", names |-> <<>>]]
            /\ Goto(p, "s_cleanup")
            /\ UNCHANGED shadow
    /\ UNCHANGED <<opts, dropOK, dsn, issued, ctx, env, files, prod, mgr, mpath, op, mfiles, newm, replay, idx,
                   tx, snap, run>>

\* applyExistingMigrationsToShadow: the names applied on production.
S_List(p) ==
    /\ pc[p] = "s_list"
    /\ IF Cancelled(p)
       THEN /\ perr' = [perr EXCEPT ![p] =
                  [cause |-> "failed to apply existing migrations to shadow", names |-> <<>>]]
            /\ Goto(p, "s_cleanup")
            /\ UNCHANGED <<replay, idx>>
       ELSE /\ replay' = [replay EXCEPT ![p] = GetAppliedMigrations(prod)]
            /\ idx' = [idx EXCEPT ![p] = 1]
            /\ Goto(p, "s_replay")
            /\ UNCHANGED perr
    /\ UNCHANGED <<opts, dropOK, dsn, issued, ctx, env, files, prod, shadow, mgr, mpath, op, mfiles, newm, tx,
                   snap, run>>

\* applyExistingMigrationsToShadow: read the next applied script from the
\* replay directory and begin to apply it to the shadow database.
S_Replay(p) ==
    /\ pc[p] = "s_replay"
    /\ IF idx[p] > Len(replay[p])
       THEN /\ idx' = [idx EXCEPT ![p] = 1]
            /\ Goto(p, "s_test")
            /\ UNCHANGED <<prod, shadow, tx, perr, run>>
       ELSE LET n == replay[p][idx[p]]
                content == ReadFile(ReplayPath(env), n)
            IN IF content = NoFile
               THEN /\ perr' = [perr EXCEPT ![p] =
                          [cause |-> "failed to apply existing migrations to shadow",
                           names |-> <<n>>]]
                    /\ Goto(p, "s_cleanup")
                    /\ UNCHANGED <<prod, shadow, tx, idx, run>>
               ELSE BeginTx(p, "shadow", n, content, "replay")
    /\ UNCHANGED <<opts, dropOK, dsn, issued, ctx, env, files, mgr, mpath, op, mfiles, newm, replay, snap>>

\* testMigrationsOnShadow: begin to apply the next new migration to the shadow
\* database; after the last one the test has passed.
S_Test(p) ==
    /\ pc[p] = "s_test"
    /\ IF idx[p] > Len(newm[p])
       THEN /\ perr' = [perr EXCEPT ![p] = NoErr]
            /\ Goto(p, "s_cleanup")
            /\ run' = [run EXCEPT ![p].atPass = TrackerNames(shadow)]
            /\ UNCHANGED <<prod, shadow, tx, idx>>
       ELSE BeginTx(p, "shadow", newm[p][idx[p]].Name, newm[p][idx[p]].Content, "test")
    /\ UNCHANGED <<opts, dropOK, dsn, issued, ctx, env, files, mgr, mpath, op, mfiles, newm, replay, snap>>

\* A deferred cleanup whose drop error replaces a nil verdict.
CleanupVerdictEscalated(e, failed) ==
    IF failed /\ e = NoErr
    THEN [cause |-> "failed to clean up shadow database", names |-> <<>>]
    ELSE e

\* What TestNewMigrations returns when it was about to return e and the drop
\* of the deferred cleanup failed or not: the cleanup closure returns
\* nothing, its error is printed.
CleanupVerdict(e, failed) == e

\* The deferred cleanup of TestNewMigrations: drop the shadow database (with
\* context.Background(), whatever the state of the caller's context), then
\* return the verdict.  Step 6 of Migrate follows a nil verdict.
S_Cleanup(p) ==
    /\ pc[p] = "s_cleanup"
    /\ DropShadow
    /\ LET e == CleanupVerdict(perr[p], DropFails) IN
       IF e = NoErr
       THEN Goto(p, "m_apply") /\ idx' = [idx EXCEPT ![p] = 1]
       ELSE Finish(p, ShadowError(e)) /\ UNCHANGED idx
    /\ perr' = [perr EXCEPT ![p] = NoErr]
    /\ run' = [run EXCEPT ![p].dropFailed = @ \/ DropFails]
    /\ UNCHANGED <<opts, dropOK, dsn, issued, ctx, env, files, prod, mgr, mpath, op, mfiles, newm, replay, snap>>

-----------------------------------------------------------------------------
(* Migrator.applyPendingMigrations and the final cleanup *)

\* Step 6 of Migrate: the IsApplied query of the next migration file; an
\* applied one is skipped, another one is applied.  After the last file,
\* step 7 follows.
M_Apply(p) ==
    /\ pc[p] = "m_apply"
    /\ IF idx[p] > Len(mfiles[p])
       THEN Goto(p, "m_final") /\ UNCHANGED idx
       ELSE IF Cancelled(p)
       THEN /\ Finish(p, Err("failed to apply migrations", "failed to check migration",
                             <<mfiles[p][idx[p]].Name>>))
            /\ UNCHANGED idx
       ELSE IF IsApplied(prod, mfiles[p][idx[p]].Name)
       THEN Goto(p, "m_apply") /\ idx' = [idx EXCEPT ![p] = @ + 1]
       ELSE Goto(p, "t_begin") /\ UNCHANGED idx
    /\ UNCHANGED <<opts, dropOK, dsn, issued, ctx, env, files, prod, shadow, mgr, mpath, op, mfiles, newm, replay,
                   tx, perr, snap, run>>

\* applyMigrationWithTimeout, migration.Apply: ApplyMigration on production.
T_Begin(p) ==
    /\ pc[p] = "t_begin"
    /\ BeginTx(p, "prod", mfiles[p][idx[p]].Name, mfiles[p][idx[p]].Content, "apply")
    /\ UNCHANGED <<opts, dropOK, dsn, issued, ctx, env, files, mgr, mpath, op, mfiles, newm, replay, snap>>

\* Step 7 of Migrate: EnsureCleanup when there is a shadow manager; its error
\* (that of a cancelled context) is a warning.  Migrate returns nil.
M_Final(p) ==
    /\ pc[p] = "m_final"
    /\ IF mgr[p] /\ ~Cancelled(p) THEN DropShadow ELSE UNCHANGED <<shadow, tx>>
    /\ run' = [run EXCEPT ![p].finalCleanup = mgr[p],
                           ![p].dropFailed = @ \/ (mgr[p] /\ ~Cancelled(p) /\ DropFails)]
    /\ Finish(p, Ok(run[p].applied))
    /\ UNCHANGED <<opts, dropOK, dsn, issued, ctx, env, files, prod, mgr, mpath, op, mfiles, newm, replay, idx,
                   perr, snap>>

\* The caller has the returned value; the locals of the call are gone.
Return(p) ==
    /\ pc[p] = "done"
    /\ pc' = [pc EXCEPT ![p] = "idle"]
    /\ op' = [op EXCEPT ![p] = "none"]
    /\ mfiles' = [mfiles EXCEPT ![p] = <<>>]
    /\ newm' = [newm EXCEPT ![p] = <<>>]
    /\ replay' = [replay EXCEPT ![p] = <<>>]
    /\ idx' = [idx EXCEPT ![p] = 1]
    /\ result' = [result EXCEPT ![p] = NoResult]
    /\ run' = [run EXCEPT ![p] = NoRun]
    /\ snap' = [snap EXCEPT ![p] = Snapshot(EmptyDB(TRUE))]
    /\ ctx' = [ctx EXCEPT ![p] = "live"]
    /\ UNCHANGED <<opts, dropOK, dsn, issued, env, files, prod, shadow, mgr, mpath, tx, perr, prevOK, prevFail>>

-----------------------------------------------------------------------------
(* The environment of the engine *)

Idle == \A p \in AllProcs : pc[p] = "idle"

\* A developer adds a change file; files change between calls only.
AddFile(n, c) ==
    /\ Idle
    /\ files[n] = NoFile
    /\ files' = [files EXCEPT ![n] = c]
    /\ prevOK' = [p \in AllProcs |-> FALSE]
    /\ UNCHANGED <<prevFail, opts, dropOK, dsn, issued, ctx, env, prod, shadow, mgr, mpath, pc, op, mfiles, newm, replay,
                   idx, tx, perr, result, snap, run>>

\* A change file is deleted.
RemoveFile(n) ==
    /\ Idle
    /\ files[n] # NoFile
    /\ files' = [files EXCEPT ![n] = NoFile]
    /\ prevOK' = [p \in AllProcs |-> FALSE]
    /\ UNCHANGED <<prevFail, opts, dropOK, dsn, issued, ctx, env, prod, shadow, mgr, mpath, pc, op, mfiles, newm, replay,
                   idx, tx, perr, result, snap, run>>

\* os.Setenv / os.Unsetenv of DATABASE_URL after the Migrator was built.
SetenvDatabaseURL(u) ==
    /\ Idle
    /\ env.DATABASE_URL # u
    /\ env' = [env EXCEPT !.DATABASE_URL = u]
    /\ UNCHANGED <<opts, dropOK, dsn, issued, ctx, files, prod, shadow, mgr, mpath, pc, op, mfiles, newm, replay,
                   idx, tx, perr, result, snap, run, prevOK, prevFail>>

\* The caller's context is cancelled: before the call it is given to, or at
\* any point of the call.
Cancel(p) ==
    /\ pc[p] # "done"
    /\ ctx[p] = "live"
    /\ ctx' = [ctx EXCEPT ![p] = "cancelled"]
    /\ UNCHANGED <<opts, dropOK, dsn, issued, env, files, prod, shadow, mgr, mpath, pc, op, mfiles, newm, replay,
                   idx, tx, perr, result, snap, run, prevOK, prevFail>>

\* The five minutes of applyMigrationWithTimeout are over while the change is
\* being applied to production.
Deadline(p) ==
    /\ pc[p] \in {"t_exec", "t_insert", "t_commit"}
    /\ tx[p].caller = "apply"
    /\ ctx[p] = "live"
    /\ ctx' = [ctx EXCEPT ![p] = "deadline"]
    /\ UNCHANGED <<opts, dropOK, dsn, issued, env, files, prod, shadow, mgr, mpath, pc, op, mfiles, newm, replay,
                   idx, tx, perr, result, snap, run, prevOK, prevFail>>

\* The process that runs the call of p is killed: no deferred function runs,
\* the server rolls back the transaction the process had open, and the shadow
\* database stays as it is.  The program is started again later.
Crash(p) ==
    /\ pc[p] \notin {"idle", "done"}
    /\ IF tx[p].alive
       THEN SetDB(tx[p].db, Rollback(DB(tx[p].db), p))
       ELSE UNCHANGED <<prod, shadow>>
    /\ tx' = [tx EXCEPT ![p] = NoTx]
    /\ pc' = [pc EXCEPT ![p] = "idle"]
    /\ op' = [op EXCEPT ![p] = "none"]
    /\ mfiles' = [mfiles EXCEPT ![p] = <<>>]
    /\ newm' = [newm EXCEPT ![p] = <<>>]
    /\ replay' = [replay EXCEPT ![p] = <<>>]
    /\ idx' = [idx EXCEPT ![p] = 1]
    /\ perr' = [perr EXCEPT ![p] = NoErr]
    /\ result' = [result EXCEPT ![p] = NoResult]
    /\ run' = [run EXCEPT ![p] = NoRun]
    /\ snap' = [snap EXCEPT ![p] = Snapshot(EmptyDB(TRUE))]
    /\ prevOK' = [prevOK EXCEPT ![p] = FALSE]
    /\ prevFail' = [prevFail EXCEPT ![p] = 0]
    /\ mgr' = [mgr EXCEPT ![p] = NewShadowManager(opts, env)]
    /\ UNCHANGED <<opts, dropOK, dsn, issued, ctx, env, files, mpath>>

\* Another client connects to the shadow database, so that DROP DATABASE is
\* refused ("database is being accessed by other users"), or disconnects.
SetDropOK(b) ==
    /\ dropOK # b
    /\ dropOK' = b
    /\ UNCHANGED <<opts, dsn, issued, ctx, env, files, prod, shadow, mgr, mpath, pc, op,
                   mfiles, newm, replay, idx, tx, perr, result, snap, run, prevOK, prevFail>>

-----------------------------------------------------------------------------
(* The connection string of the Manager *)

\* A string is a sequence of characters; "postgres:", "postgres", "dbname="
\* and "_gi_mig_shadow_db" stand for their characters, which are letters,
\* digits and underscores that occur nowhere else.

\* The database names production may have: plain ones and one that is valid
\* only as a quoted identifier (my-app).
DBNames == {<<"a">>, <<"b">>, <<"a", "-", "b">>}

\* The user names (none, one equal to a database name, another one), the
\* host names and the parameters of a connection URL.
Users == {<<>>, <<"a">>, <<"u">>}
Hosts == {<<"h">>, <<"a">>}
Queries == {<<>>, <<"?", "k", "=", "v">>, <<"?", "k", "=", "/", "v">>}

\* postgres://[user@]host/dbname[?param=value] for production.
URL(u, h, d, q) ==
    <<"postgres:", "/", "/">> \o (IF u = <<>> THEN <<>> ELSE u \o <<"@">>) \o h
        \o <<"/">> \o d \o q

\* The connection strings given to NewWithURL: URLs, the key/value form of
\* lib/pq, and the empty string.
DSNs ==
    {URL(u, h, d, q) : u \in Users, h \in Hosts, d \in DBNames, q \in Queries}
        \cup {<<"dbname=">> \o d : d \in DBNames} \cup {<<>>}

\* strings.Index(s, c): the first position of character c in s, 0 for none.
Index(s, c) ==
    IF \E i \in 1..Len(s) : s[i] = c
    THEN CHOOSE i \in 1..Len(s) : s[i] = c /\ \A j \in 1..(i - 1) : s[j] # c
    ELSE 0

\* strings.Split(s, sep) for a one-character separator.
RECURSIVE Split(_, _)
Split(s, sep) ==
    IF Index(s, sep) = 0 THEN <<s>>
    ELSE <<SubSeq(s, 1, Index(s, sep) - 1)>>
             \o Split(SubSeq(s, Index(s, sep) + 1, Len(s)), sep)

\* extractDBNameFromDSN: the last "/"-separated part up to its first "?".
extractDBNameFromDSN(s) ==
    LET parts == Split(s, "/")
        lastPart == parts[Len(parts)]
        i == Index(lastPart, "?")
    IN IF i # 0 THEN SubSeq(lastPart, 1, i - 1) ELSE lastPart

\* strings.Replace(s, old, new, 1): the first occurrence of old is replaced.
Replace1(s, old, new) ==
    LET at == {i \in 1..(Len(s) - Len(old) + 1) : SubSeq(s, i, i + Len(old) - 1) = old}
    IN IF at = {} THEN s
       ELSE LET i == Min(at)
            IN SubSeq(s, 1, i - 1) \o new \o SubSeq(s, i + Len(old), Len(s))

\* connectToDatabase(dbName) and connectToPostgresDatabase: the DSN that is
\* given to sql.Open.
Rewrite(s, dbName) ==
    Replace1(s, <<"/">> \o extractDBNameFromDSN(s), <<"/">> \o dbName)

\* The database a connection opened with DSN s is a connection to: the path
\* of a URL up to the parameters, the value of dbname in the key/value form.
TargetDB(s) ==
    IF s # <<>> /\ s[1] = "dbname=" THEN SubSeq(s, 2, Len(s))
    ELSE LET rest == SubSeq(s, 4, Len(s))
             q == Index(rest, "?")
             head == IF q = 0 THEN rest ELSE SubSeq(rest, 1, q - 1)
             p == Index(head, "/")
         IN IF p = 0 THEN <<>> ELSE SubSeq(head, p + 1, Len(head))

\* The server parses name as an unquoted identifier.
IsIdentifier(name) == \A i \in 1..Len(name) : name[i] \notin {"-", "/", "?", "@", "="}

\* NewWithURL(mainDB, u), mainDB being a connection opened with u, followed
\* by the call of TestNewMigrations with new migrations.
D_NewWithURL(p, u) ==
    /\ pc[p] = "idle" /\ dsn = <<>> /\ result[p] = NoResult
    /\ op' = [op EXCEPT ![p] = "TestNewMigrations"]
    /\ IF u = <<>>
       THEN /\ Finish(p, Err("failed to initialize shadow database manager",
                             "database URL is required for shadow database operations",
                             <<>>))
            /\ UNCHANGED dsn
       ELSE /\ dsn' = u
            /\ Goto(p, "d_admin")
    /\ UNCHANGED issued
    /\ UNCHANGED <<opts, dropOK, ctx, env, files, prod, shadow, mgr, mpath, mfiles, newm, replay,
                   idx, tx, perr, snap, run>>

\* m.currentDBName: SELECT current_database() on mainDB.
CurrentDBName == TargetDB(dsn)

\* m.shadowDBName = currentDBName + "_gi_mig_shadow_db"
ShadowDBName == CurrentDBName \o <<"_gi_mig_shadow_db">>

\* setupShadowDatabase: connectToPostgresDatabase.
D_Admin(p) ==
    /\ pc[p] = "d_admin"
    /\ issued' = issued \cup {[kind |-> "admin", text |-> Rewrite(dsn, <<"postgres">>)]}
    /\ Goto(p, "d_drop")
    /\ UNCHANGED <<dsn, op>>
    /\ UNCHANGED <<opts, dropOK, ctx, env, files, prod, shadow, mgr, mpath, mfiles, newm, replay,
                   idx, tx, perr, snap, run>>

\* dropDatabaseIfExists: fmt.Sprintf("DROP DATABASE IF EXISTS %s", dbName) is
\* sent; a name that is no identifier is a syntax error.
D_Drop(p) ==
    /\ pc[p] = "d_drop"
    /\ issued' = issued \cup {[kind |-> "DROP DATABASE IF EXISTS", text |-> ShadowDBName]}
    /\ IF IsIdentifier(ShadowDBName)
       THEN Goto(p, "d_create")
       ELSE Finish(p, ShadowError([cause |-> "failed to setup shadow database",
                                   names |-> <<>>]))
    /\ UNCHANGED <<dsn, op>>
    /\ UNCHANGED <<opts, dropOK, ctx, env, files, prod, shadow, mgr, mpath, mfiles, newm, replay,
                   idx, tx, perr, snap, run>>

\* createDatabase: fmt.Sprintf("CREATE DATABASE %s", dbName) is sent.
D_Create(p) ==
    /\ pc[p] = "d_create"
    /\ issued' = issued \cup {[kind |-> "CREATE DATABASE", text |-> ShadowDBName]}
    /\ Goto(p, "d_connect")
    /\ UNCHANGED <<dsn, op>>
    /\ UNCHANGED <<opts, dropOK, ctx, env, files, prod, shadow, mgr, mpath, mfiles, newm, replay,
                   idx, tx, perr, snap, run>>

\* setupShadowDatabase: connectToDatabase(m.shadowDBName); the tracker of the
\* shadow test is built on this connection.
D_Connect(p) ==
    /\ pc[p] = "d_connect"
    /\ issued' = issued \cup {[kind |-> "shadow", text |-> Rewrite(dsn, ShadowDBName)]}
    /\ Finish(p, Ok(<<>>))
    /\ UNCHANGED <<dsn, op>>
    /\ UNCHANGED <<opts, dropOK, ctx, env, files, prod, shadow, mgr, mpath, mfiles, newm, replay,
                   idx, tx, perr, snap, run>>

-----------------------------------------------------------------------------
(* The specifications *)

\* One step of the call caller p is in.
Step(p) ==
    \/ M_Ensure(p)
    \/ G_List(p)
    \/ M_Validate(p)
    \/ M_Load(p)
    \/ M_FindNew(p)
    \/ S_Drop(p)
    \/ S_Create(p)
    \/ S_Ensure(p)
    \/ S_List(p)
    \/ S_Replay(p)
    \/ S_Test(p)
    \/ S_Cleanup(p)
    \/ M_Apply(p)
    \/ T_Begin(p)
    \/ T_Exec(p)
    \/ T_Insert(p)
    \/ T_Commit(p)
    \/ M_Final(p)
    \/ Return(p)

\* One program that calls the engine again and again while the migrations
\* directory and the environment change between the calls.
Next ==
    \/ \E p \in SeqProcs : \E o \in Ops : Start(p, o)
    \/ \E p \in SeqProcs : Step(p)
    \/ \E n \in Names : \E c \in FileKinds : AddFile(n, c)
    \/ \E n \in Names : RemoveFile(n)
    \/ \E u \in {"", ProdURL} : SetenvDatabaseURL(u)

Spec == Init /\ [][Next]_vars

\* Number of change files in the migrations directory of the concurrent test.
ConcFiles == 1

\* TestMigrator_ConcurrentMigrations: New(db) twice, MIGRATIONS_PATH and
\* DATABASE_URL set by the test, CREATE TABLE scripts, an empty database.
ConcInit ==
    InitWith([MigrationsPath |-> "", DatabaseURL |-> "", SkipShadowDB |-> FALSE],
             [MIGRATIONS_PATH |-> CustomPath, DATABASE_URL |-> ProdURL],
             [n \in Names |-> IF n <= ConcFiles THEN "create" ELSE NoFile])

\* Each of the two goroutines calls Migrate once; the test reads both results.
ConcNext ==
    \/ \E p \in ConcProcs : pc[p] = "idle" /\ result[p] = NoResult /\ Start(p, "Migrate")
    \/ \E p \in ConcProcs :
          \/ M_Ensure(p)
          \/ M_Validate(p)
          \/ M_Load(p)
          \/ M_FindNew(p)
          \/ S_Drop(p)
          \/ S_Create(p)
          \/ S_Ensure(p)
          \/ S_List(p)
          \/ S_Replay(p)
          \/ S_Test(p)
          \/ S_Cleanup(p)
          \/ M_Apply(p)
          \/ T_Begin(p)
          \/ T_Exec(p)
          \/ T_Insert(p)
          \/ T_Commit(p)
          \/ M_Final(p)

SpecConc == ConcInit /\ [][ConcNext]_vars

\* What goroutine p of the test does: it calls Migrate once and runs it to
\* its return.
ConcStep(p) ==
    \/ pc[p] = "idle" /\ result[p] = NoResult /\ Start(p, "Migrate")
    \/ M_Ensure(p)
    \/ M_Validate(p)
    \/ M_Load(p)
    \/ M_FindNew(p)
    \/ S_Drop(p)
    \/ S_Create(p)
    \/ S_Ensure(p)
    \/ S_List(p)
    \/ S_Replay(p)
    \/ S_Test(p)
    \/ S_Cleanup(p)
    \/ M_Apply(p)
    \/ T_Begin(p)
    \/ T_Exec(p)
    \/ T_Insert(p)
    \/ T_Commit(p)
    \/ M_Final(p)

\* The two goroutines of the test under the Go scheduler and a server that
\* answers: a goroutine that can take a step, because it is runnable or the
\* lock it waits for is free, takes it.
SpecConcFair ==
    /\ ConcInit
    /\ [][ConcNext]_vars
    /\ \A p \in ConcProcs : WF_vars(ConcStep(p))

\* New(db) as the tests build it: MIGRATIONS_PATH set, DATABASE_URL set or not.
CancelInit ==
    \E u \in {"", ProdURL} :
        InitWith([MigrationsPath |-> "", DatabaseURL |-> "", SkipShadowDB |-> FALSE],
                 [MIGRATIONS_PATH |-> CustomPath, DATABASE_URL |-> u],
                 [n \in Names |-> NoFile])

\* One program whose calls are given a context that may be cancelled, and
\* whose production applies may run into their deadline.
CancelNext ==
    \/ \E p \in SeqProcs : \E o \in Ops : Start(p, o)
    \/ \E p \in SeqProcs : Step(p)
    \/ \E n \in Names : \E c \in FileKinds : AddFile(n, c)
    \/ \E p \in SeqProcs : Cancel(p)
    \/ \E p \in SeqProcs : Deadline(p)

SpecCancel == CancelInit /\ [][CancelNext]_vars

\* Number of change names of the program whose runs may be interrupted.
ShadowNames == 3

\* New(db) with MIGRATIONS_PATH and DATABASE_URL set, as the tests and the
\* README set them: every Migrate with a pending change tests on the shadow
\* database.
ShadowInit ==
    InitWith([MigrationsPath |-> "", DatabaseURL |-> "", SkipShadowDB |-> FALSE],
             [MIGRATIONS_PATH |-> CustomPath, DATABASE_URL |-> ProdURL],
             [n \in 1..ShadowNames |-> NoFile])

\* One program that calls Migrate again and again; change files are added
\* between the calls and never removed, and a call may be interrupted at any
\* point.
ShadowNext ==
    \/ \E p \in SeqProcs : Start(p, "Migrate")
    \/ \E p \in SeqProcs :
          \/ M_Ensure(p)
          \/ M_Validate(p)
          \/ M_Load(p)
          \/ M_FindNew(p)
          \/ S_Drop(p)
          \/ S_Create(p)
          \/ S_Ensure(p)
          \/ S_List(p)
          \/ S_Replay(p)
          \/ S_Test(p)
          \/ S_Cleanup(p)
          \/ M_Apply(p)
          \/ T_Begin(p)
          \/ T_Exec(p)
          \/ T_Insert(p)
          \/ T_Commit(p)
          \/ M_Final(p)
          \/ Return(p)
    \/ \E n \in 1..ShadowNames : \E c \in FileKinds : AddFile(n, c)
    \/ \E p \in SeqProcs : Crash(p)

SpecShadow == ShadowInit /\ [][ShadowNext]_vars

\* New(db) with MIGRATIONS_PATH and DATABASE_URL set, an empty directory.
DropInit ==
    InitWith([MigrationsPath |-> "", DatabaseURL |-> "", SkipShadowDB |-> FALSE],
             [MIGRATIONS_PATH |-> CustomPath, DATABASE_URL |-> ProdURL],
             [n \in Names |-> NoFile])

\* One program with shadow testing on, change files that are only added, and
\* a server that may refuse to drop the shadow database at any time.
DropNext ==
    \/ \E p \in SeqProcs : Start(p, "Migrate")
    \/ \E p \in SeqProcs :
          \/ M_Ensure(p)
          \/ M_Validate(p)
          \/ M_Load(p)
          \/ M_FindNew(p)
          \/ S_Drop(p)
          \/ S_Create(p)
          \/ S_Ensure(p)
          \/ S_List(p)
          \/ S_Replay(p)
          \/ S_Test(p)
          \/ S_Cleanup(p)
          \/ M_Apply(p)
          \/ T_Begin(p)
          \/ T_Exec(p)
          \/ T_Insert(p)
          \/ T_Commit(p)
          \/ M_Final(p)
          \/ Return(p)
    \/ \E n \in Names : \E c \in FileKinds : AddFile(n, c)
    \/ \E b \in BOOLEAN : SetDropOK(b)

SpecDrop == DropInit /\ [][DropNext]_vars

\* One Manager, built with any of the connection strings, sets up its shadow
\* database.
DSNNext ==
    \/ \E p \in SeqProcs : \E u \in DSNs : D_NewWithURL(p, u)
    \/ \E p \in SeqProcs :
          \/ D_Admin(p)
          \/ D_Drop(p)
          \/ D_Create(p)
          \/ D_Connect(p)

SpecDSN == DropInit /\ [][DSNNext]_vars

\* New(db) with MIGRATIONS_PATH set and no connection string.
LoaderInit ==
    InitWith([MigrationsPath |-> "", DatabaseURL |-> "", SkipShadowDB |-> FALSE],
             [MIGRATIONS_PATH |-> CustomPath, DATABASE_URL |-> ""],
             [n \in Names |-> NoFile])

\* One program without shadow testing over a directory that also holds
\* entries that are not change files, added and removed between the calls.
LoaderNext ==
    \/ \E p \in SeqProcs : \E o \in {"Migrate", "GetPendingMigrations"} : Start(p, o)
    \/ \E p \in SeqProcs :
          \/ M_Ensure(p)
          \/ M_Validate(p)
          \/ M_Load(p)
          \/ M_FindNew(p)
          \/ M_Apply(p)
          \/ T_Begin(p)
          \/ T_Exec(p)
          \/ T_Insert(p)
          \/ T_Commit(p)
          \/ M_Final(p)
          \/ Return(p)
    \/ \E n \in Names : \E c \in EntryKinds : AddFile(n, c)
    \/ \E n \in Names : RemoveFile(n)

SpecLoader == LoaderInit /\ [][LoaderNext]_vars

-----------------------------------------------------------------------------
(* Direct callers of the Tracker *)

\* The scripts the direct callers pass ("data" fails on production as
\* "syntax" does).
DirectKinds == {"create", "syntax", "dml"}

\* A caller calls Tracker.ApplyMigration(n, c) on the production database.
A_Call(p, n, c) ==
    /\ pc[p] = "idle"
    /\ op' = [op EXCEPT ![p] = "ApplyMigration"]
    /\ pc' = [pc EXCEPT ![p] = "a_begin"]
    /\ tx' = [tx EXCEPT ![p] = [NoTx EXCEPT !.name = n, !.content = c, !.caller = "direct"]]
    /\ snap' = [snap EXCEPT ![p] = Snapshot(prod)]
    /\ run' = [run EXCEPT ![p] = [NoRun EXCEPT !.script = c]]
    /\ UNCHANGED <<opts, dropOK, dsn, issued, ctx, env, files, prod, shadow, mgr, mpath, mfiles, newm, replay,
                   idx, perr, result, prevOK, prevFail>>

A_Begin(p) ==
    /\ pc[p] = "a_begin"
    /\ BeginTx(p, "prod", tx[p].name, tx[p].content, "direct")
    /\ UNCHANGED <<opts, dropOK, dsn, issued, ctx, env, files, mgr, mpath, op, mfiles, newm, replay, snap>>

\* Callers that use the Tracker itself, any number of times, with any name
\* and script, on a database whose tracking relation may not exist yet.
TrackerInit ==
    InitWith([MigrationsPath |-> "", DatabaseURL |-> "", SkipShadowDB |-> FALSE],
             [MIGRATIONS_PATH |-> "", DATABASE_URL |-> ""],
             [n \in Names |-> NoFile])

TrackerNext ==
    \/ \E p \in ConcProcs : Start(p, "EnsureMigrationsTable")
    \/ \E p \in ConcProcs : \E n \in Names : \E c \in DirectKinds : A_Call(p, n, c)
    \/ \E p \in ConcProcs :
          \/ M_Ensure(p)
          \/ A_Begin(p)
          \/ T_Exec(p)
          \/ T_Insert(p)
          \/ T_Commit(p)
          \/ Return(p)

SpecTracker == TrackerInit /\ [][TrackerNext]_vars

\* A caller calls Tracker.Record(n) on the production database.
R_Call(p, n) ==
    /\ pc[p] = "idle"
    /\ op' = [op EXCEPT ![p] = "Record"]
    /\ pc' = [pc EXCEPT ![p] = "r_insert"]
    /\ tx' = [tx EXCEPT ![p] = [NoTx EXCEPT !.db = "prod", !.name = n, !.caller = "direct"]]
    /\ snap' = [snap EXCEPT ![p] = Snapshot(prod)]
    /\ run' = [run EXCEPT ![p] = NoRun]
    /\ UNCHANGED <<opts, dropOK, dsn, issued, ctx, env, files, prod, shadow, mgr, mpath, mfiles, newm, replay,
                   idx, perr, result, prevOK, prevFail>>

\* t.db.ExecContext(ctx, "INSERT INTO _go_migrations (name) VALUES ($1)", name)
\* outside any transaction: the statement waits for an open transaction that
\* inserted the same name, fails when the relation is missing or a committed
\* row holds the name, and otherwise its row is committed at once.
R_Insert(p) ==
    /\ pc[p] = "r_insert"
    /\ LET n == tx[p].name IN
       IF Cancelled(p)
       THEN /\ Finish(p, Err("failed to record migration", ctx[p], <<n>>))
            /\ UNCHANGED prod
       ELSE /\ ~InsertBlocked(p)
            /\ IF prod.table /\ ~NameTaken(prod, n)
               THEN /\ prod' = [prod EXCEPT !.rows = Append(@, [name |-> n, by |-> 0])]
                    /\ Finish(p, Ok(<<n>>))
               ELSE /\ Finish(p, Err("failed to record migration",
                                     IF prod.table THEN "unique constraint"
                                     ELSE "relation does not exist", <<n>>))
                    /\ UNCHANGED prod
    /\ tx' = [tx EXCEPT ![p] = NoTx]
    /\ UNCHANGED <<opts, dropOK, dsn, issued, ctx, env, files, shadow, mgr, mpath, op, mfiles, newm, replay, idx,
                   perr, snap, run>>

\* Two callers that use the Tracker itself: EnsureMigrationsTable, Record and
\* ApplyMigration of a script that changes data, any number of times, with
\* any name, on a database whose tracking relation may not exist yet.
RecordNext ==
    \/ \E p \in ConcProcs : Start(p, "EnsureMigrationsTable")
    \/ \E p \in ConcProcs : \E n \in Names : R_Call(p, n)
    \/ \E p \in ConcProcs : \E n \in Names : A_Call(p, n, "dml")
    \/ \E p \in ConcProcs :
          \/ M_Ensure(p)
          \/ R_Insert(p)
          \/ A_Begin(p)
          \/ T_Exec(p)
          \/ T_Insert(p)
          \/ T_Commit(p)
          \/ Return(p)

SpecRecord == TrackerInit /\ [][RecordNext]_vars

-----------------------------------------------------------------------------
(* Properties of the sequential program (Spec) *)

\* The number of rows of the tracking relation of db that hold name n.
Entries(db, n) ==
    Cardinality({i \in 1..Len(Committed(db)) : Committed(db)[i].name = n})

\* Caller p is back from the given call and has not looked at the result yet.
Returned(p, o) == pc[p] = "done" /\ op[p] = o

\* C1: a Migrate that directly follows a successful Migrate, with no change
\* file added or removed in between, succeeds, executes no script on
\* production, adds no entry, and leaves exactly one entry per change file.
C1_IdempotentMigrate ==
    \A p \in AllProcs :
        (Returned(p, "Migrate") /\ run[p].again) =>
            /\ result[p].status = "ok"
            /\ run[p].execd = {}
            /\ run[p].applied = <<>>
            /\ Committed(prod) = snap[p].rows
            /\ \A n \in Range(ReadDir(mpath[p])) : Entries(prod, n) = 1

\* A second Migrate in succession has returned, over a directory with files.
C1_Witness ==
    \E p \in AllProcs :
        /\ Returned(p, "Migrate") /\ run[p].again
        /\ Len(ReadDir(mpath[p])) >= 2
        /\ Len(Committed(prod)) >= 2

\* C3: when a pending change fails during the shadow test, Migrate returns an
\* error and production has the entries and the schema objects it had when
\* Migrate started; no script was executed on production, not even those of
\* the valid pending changes that sort before the failing one.
C3_ShadowGate ==
    \A p \in AllProcs :
        (Returned(p, "Migrate") /\ run[p].shadowFailed # {}) =>
            /\ result[p].status = "shadow database test failed"
            /\ Committed(prod) = snap[p].rows
            /\ prod.objs = snap[p].objs
            /\ run[p].execd = {}
            /\ run[p].applied = <<>>

\* The second pending change failed on the shadow database after a valid
\* first one had passed there.
C3_Witness ==
    \E p \in AllProcs :
        /\ Returned(p, "Migrate")
        /\ Len(newm[p]) >= 2
        /\ newm[p][1].Content = "create"
        /\ newm[p][1].Name \in run[p].shadowOps
        /\ newm[p][2].Name \in run[p].shadowFailed
        /\ ~IsApplied(prod, newm[p][1].Name)

\* C4: when Migrate starts while an applied name has no .sql file in the
\* migrations directory, it fails at validation with an error that names
\* every such file, before a shadow database is created and before any
\* change is attempted on the shadow database or on production.
C4_MissingFileGuard ==
    \A p \in AllProcs :
        LET gone == {n \in Names : /\ \E i \in 1..Len(snap[p].rows) : snap[p].rows[i].name = n
                                   /\ ReadFile(mpath[p], n) = NoFile}
        IN (Returned(p, "Migrate") /\ gone # {}) =>
              /\ result[p].status = "migration validation failed"
              /\ Range(result[p].names) = gone
              /\ ~run[p].provisioned
              /\ run[p].shadowOps = {}
              /\ run[p].execd = {}
              /\ Committed(prod) = snap[p].rows
              /\ ~shadow.exists

\* Validation failed for a deleted file while another file was pending.
C4_Witness ==
    \E p \in AllProcs :
        /\ Returned(p, "Migrate")
        /\ result[p].status = "migration validation failed"
        /\ Len(result[p].names) >= 1
        /\ \E n \in Names : files[n] # NoFile /\ ~IsApplied(prod, n)
        /\ mgr[p]

\* C8: no name has two entries in production's tracking relation, and no
\* step of Migrate, GetAppliedMigrations, GetPendingMigrations, the shadow
\* test or a cleanup removes or reorders an entry: what was there stays, in
\* the same order.
C8_EntriesOnlyGrow ==
    /\ [](\A n \in Names : Entries(prod, n) <= 1)
    /\ [][SelectSeq(Committed(prod'),
                    LAMBDA r : \E i \in 1..Len(Committed(prod)) : Committed(prod)[i] = r)
            = Committed(prod)]_vars

\* A Migrate that found entries on production has added another one.
C8_Witness ==
    \E p \in AllProcs :
        /\ Returned(p, "Migrate")
        /\ run[p].provisioned
        /\ Len(snap[p].rows) >= 1
        /\ Len(Committed(prod)) > Len(snap[p].rows)

\* C9: with Options.SkipShadowDB set, no call creates a shadow database or
\* applies anything to one.
C9_SkipShadowDBDisables ==
    \A p \in AllProcs :
        opts.SkipShadowDB => ~run[p].provisioned /\ run[p].shadowOps = {}

\* Migrate has returned to caller p, who never had a connection string: none
\* in the options, none in DATABASE_URL.
ReturnedWithoutURL(p) ==
    /\ Returned(p, "Migrate")
    /\ ~run[p].manager
    /\ opts.DatabaseURL = "" /\ env.DATABASE_URL = ""

\* The names that were pending when the call of p started, in name order.
PendingAtStart(p) ==
    SelectSeq(ReadDir(mpath[p]),
              LAMBDA n : \A i \in 1..Len(snap[p].rows) : snap[p].rows[i].name # n)

\* C10 as stated: without a connection string a Migrate that passes validation
\* creates no shadow database, applies every pending change in name order
\* and returns nil.
C10_NoURLAlwaysSucceeds ==
    \A p \in AllProcs :
        (ReturnedWithoutURL(p) /\ result[p].status # "migration validation failed") =>
            /\ ~run[p].provisioned
            /\ result[p].status = "ok"
            /\ run[p].applied = PendingAtStart(p)

\* C10, amended: without a connection string Migrate creates no shadow
\* database and applies nothing to one; the missing connection string is a
\* warning and never the error.  After validation the pending changes are
\* applied to production in name order up to the first one whose script
\* fails there; Migrate returns nil exactly when none fails, and then every
\* pending change is applied.
C10_NoURLAppliesDirectly ==
    \A p \in AllProcs :
        ReturnedWithoutURL(p) =>
            /\ ~run[p].provisioned /\ run[p].shadowOps = {} /\ ~shadow.exists
            /\ run[p].warned <=> (result[p].status # "migration validation failed"
                                  /\ PendingAtStart(p) # <<>>)
            /\ result[p].status \in {"ok", "migration validation failed",
                                     "failed to apply migrations"}
            /\ result[p].status = "ok" =>
                  /\ run[p].applied = PendingAtStart(p)
                  /\ \A n \in Range(ReadDir(mpath[p])) : Entries(prod, n) = 1
            /\ result[p].status = "failed to apply migrations" =>
                  /\ run[p].applied \o result[p].names =
                        SubSeq(PendingAtStart(p), 1, Len(run[p].applied) + 1)
                  /\ ReadFile(mpath[p], result[p].names[1]) \in {"syntax", "data"}
                  /\ Committed(prod) =
                        snap[p].rows \o [i \in 1..Len(run[p].applied) |->
                                            [name |-> run[p].applied[i], by |-> 0]]
            /\ result[p].status # "migration validation failed" =>
                  (result[p].status = "ok" <=>
                      \A n \in Range(PendingAtStart(p)) :
                          ReadFile(mpath[p], n) \notin {"syntax", "data"})

\* Without a connection string Migrate has applied two pending changes
\* directly, after the warning.
C10_Witness ==
    \E p \in AllProcs :
        /\ ReturnedWithoutURL(p)
        /\ result[p].status = "ok"
        /\ run[p].warned
        /\ Len(run[p].applied) >= 2

-----------------------------------------------------------------------------
(* Properties of Tracker.ApplyMigration *)

\* Database d after the step.
DBNext(d) == IF d = "prod" THEN prod' ELSE shadow'

\* C2: a step in which ApplyMigration fails, at the script or at the insert
\* into the tracking relation, returns the error and leaves the database as
\* other sessions saw it before: no new row, no new schema object, and no
\* open transaction of the caller.
C2_FailedApplyRollsBack ==
    [][\A p \in AllProcs :
          (/\ pc[p] \in {"t_exec", "t_insert"}
           /\ pc'[p] = "done"
           /\ result'[p].status # "ok") =>
              /\ result'[p].names = <<tx[p].name>>
              /\ tx'[p] = NoTx
              /\ Committed(DBNext(tx[p].db)) = Committed(DB(tx[p].db))
              /\ DBNext(tx[p].db).objs = DB(tx[p].db).objs
              /\ \A i \in 1..Len(DBNext(tx[p].db).rows) : DBNext(tx[p].db).rows[i].by # p]_vars

\* An ApplyMigration whose script ran and whose insert failed has returned:
\* the object the script creates is not there.
C2_Witness ==
    \E p \in AllProcs :
        /\ Returned(p, "ApplyMigration")
        /\ result[p].status = "failed to record migration"
        /\ result[p].names[1] \in run[p].execd
        /\ result[p].names[1] \notin prod.objs

-----------------------------------------------------------------------------
(* Properties of two concurrent Migrate calls (SpecConc) *)

\* Both goroutines of the concurrent test have sent their result.
BothReturned == \A p \in ConcProcs : pc[p] = "done"

\* C5: once both concurrent Migrate calls have returned, every change of the
\* migrations directory has exactly one entry in the tracking relation and
\* its table exists on production.
C5_ExactlyOneEntry ==
    BothReturned =>
        \A n \in Names :
            files[n] # NoFile => Entries(prod, n) = 1 /\ n \in prod.objs

\* C6: once both concurrent Migrate calls have returned, at least one of them
\* has returned nil.
C6_OneSucceeds ==
    BothReturned => \E p \in ConcProcs : result[p].status = "ok"

-----------------------------------------------------------------------------
(* Properties of concurrent direct calls of ApplyMigration (SpecTracker) *)

\* Callers p and q have both returned from ApplyMigration calls that raced on
\* name n: each call started when the tracking relation existed and did not
\* hold n, with a script that succeeds on the database as it was then.
Raced(p, q, n) ==
    /\ p # q
    /\ Returned(p, "ApplyMigration") /\ Returned(q, "ApplyMigration")
    /\ result[p].names = <<n>> /\ result[q].names = <<n>>
    /\ \A r \in {p, q} :
          /\ snap[r].table
          /\ \A i \in 1..Len(snap[r].rows) : snap[r].rows[i].name # n
          /\ n \notin snap[r].objs
          /\ run[r].script \in {"create", "dml"}

\* At most one of the callers committed; the row and the object of the name
\* are there together or not at all; no caller has a transaction left.
OneWinner(p, q, n) ==
    /\ Cardinality({r \in {p, q} : result[r].status = "ok"}) = 1
    /\ Entries(prod, n) = 1
    /\ \A r \in {p, q} :
          /\ tx[r] = NoTx
          /\ \A i \in 1..Len(prod.rows) : prod.rows[i].by # r
          /\ result[r].status = "ok" =>
                (run[r].script = "create" <=> n \in prod.objs)

\* C7 as stated: exactly one of the racing callers commits, and the loser's
\* error is the constraint violation of its insert.
C7_LoserGetsConstraintError ==
    \A p, q \in AllProcs : \A n \in Names :
        Raced(p, q, n) =>
            /\ OneWinner(p, q, n)
            /\ \A r \in {p, q} :
                  result[r].status # "ok" => result[r].status = "failed to record migration"

\* C7, amended: exactly one of the racing callers commits; the loser's error
\* is the constraint violation of its insert, or the failure of its own
\* script when the script creates a table the winner has committed; a
\* repeatable script always loses at the insert.
C7_RaceHasOneWinner ==
    \A p, q \in AllProcs : \A n \in Names :
        Raced(p, q, n) =>
            /\ OneWinner(p, q, n)
            /\ \A r \in {p, q} :
                  result[r].status # "ok" =>
                      /\ result[r].status \in {"failed to record migration",
                                               "failed to execute migration"}
                      /\ result[r].status = "failed to execute migration" =>
                            run[r].script = "create" /\ n \in prod.objs
                      /\ n \notin prod.objs =>
                            result[r].status = "failed to record migration"

\* Two callers raced on a name with a repeatable script: one committed, the
\* other one's insert violated the constraint.
C7_Witness ==
    \E p, q \in AllProcs : \E n \in Names :
        /\ Raced(p, q, n)
        /\ run[p].script = "dml" /\ run[q].script = "dml"
        /\ result[p].status = "ok"
        /\ result[q].status = "failed to record migration"

-----------------------------------------------------------------------------
(* Order and increments (Spec) *)

\* The names of the entries production held when the call of p started.
AppliedAtStart(p) == [i \in 1..Len(snap[p].rows) |-> snap[p].rows[i].name]

\* The entries a run leaves for the names it applied, in the order it
\* applied them.
RowsOf(names) == [i \in 1..Len(names) |-> [name |-> names[i], by |-> 0]]

\* C11: the changes one Migrate run applies are applied in ascending name
\* order, and recorded after the entries that were there, in that order,
\* which is the order GetAppliedMigrations returns them in.
C11_AppliedInNameOrder ==
    \A p \in AllProcs :
        Returned(p, "Migrate") =>
            /\ \A i, j \in 1..Len(run[p].applied) :
                  i < j => run[p].applied[i] < run[p].applied[j]
            /\ Committed(prod) = snap[p].rows \o RowsOf(run[p].applied)
            /\ GetAppliedMigrations(prod) = AppliedAtStart(p) \o run[p].applied

\* One run has applied two changes.
C11_Witness ==
    \E p \in AllProcs :
        /\ Returned(p, "Migrate")
        /\ Len(run[p].applied) >= 2
        /\ snap[p].rows = <<>>

\* C12: a Migrate that starts with entries on production, every one with the
\* file it was applied from, and with valid pending changes, applies the
\* pending changes and
\* nothing else: it returns nil, the applied order is the old one followed by
\* the new names, no script of an applied change is executed again and the
\* old entries stay as they were.
C12_IncrementalAppliesNew ==
    \A p \in AllProcs :
        (/\ Returned(p, "Migrate")
         /\ snap[p].rows # <<>>
         /\ \A n \in Range(AppliedAtStart(p)) : ReadFile(mpath[p], n) = "create"
         /\ PendingAtStart(p) # <<>>
         /\ \A n \in Range(PendingAtStart(p)) : ReadFile(mpath[p], n) = "create") =>
            /\ result[p].status = "ok"
            /\ run[p].applied = PendingAtStart(p)
            /\ run[p].execd = Range(PendingAtStart(p))
            /\ Committed(prod) = snap[p].rows \o RowsOf(PendingAtStart(p))

-----------------------------------------------------------------------------
(* Cleanup and cancellation (SpecCancel) *)

\* Caller p is inside TestNewMigrations, between the creation of the shadow
\* database and the end of the deferred cleanup.
InShadowPass(p) ==
    \/ pc[p] \in {"s_ensure", "s_list", "s_replay", "s_test", "s_cleanup"}
    \/ pc[p] \in {"t_exec", "t_insert", "t_commit"} /\ tx[p].db = "shadow"

\* C13: the shadow database exists only while the Migrate call that created
\* it is inside its shadow test: when the test has passed, failed or been
\* cancelled, and when Migrate has returned, it is gone.
C13_ShadowDroppedAfterTest ==
    shadow.exists => \E p \in AllProcs : InShadowPass(p) /\ run[p].provisioned

\* A Migrate whose replay failed on the shadow database it had created has
\* returned.
C13_Witness ==
    \E p \in AllProcs :
        /\ Returned(p, "Migrate")
        /\ run[p].provisioned
        /\ result[p].cause = "failed to apply existing migrations to shadow"
        /\ ~shadow.exists

\* C14: a Migrate that called TestNewMigrations has called EnsureCleanup by
\* the time it returns, whatever it returns.
C14_FinalCleanupOnEveryExit ==
    \A p \in AllProcs :
        (Returned(p, "Migrate") /\ run[p].shadowStarted) => run[p].finalCleanup

\* Caller p is applying a change to production, or about to.
ApplyingToProd(p) ==
    \/ pc[p] = "t_begin"
    \/ pc[p] \in {"t_exec", "t_insert", "t_commit"} /\ tx[p].caller = "apply"

\* The change caller p is applying to production.
ChangeInHand(p) == IF pc[p] = "t_begin" THEN mfiles[p][idx[p]].Name ELSE tx[p].name

\* C15: the step a Migrate takes with a cancelled or expired context while it
\* applies a change to production returns an error naming the change and
\* rolls the transaction back: no entry and no schema object is added.  With
\* a context cancelled from the start Migrate returns an error and changes
\* nothing.  When Migrate has returned such an error from an apply the changes it had
\* committed are recorded, in order, and no script after the one in hand
\* was executed.
C15_CancelledApplyRollsBack ==
    /\ [][\A p \in AllProcs :
            (ApplyingToProd(p) /\ ctx[p] # "live" /\ pc'[p] # pc[p]) =>
                /\ pc'[p] = "done"
                /\ result'[p].status = "failed to apply migrations"
                /\ result'[p].names = <<ChangeInHand(p)>>
                /\ tx'[p] = NoTx
                /\ Committed(prod') = Committed(prod)
                /\ prod'.objs = prod.objs
                /\ \A i \in 1..Len(prod'.rows) : prod'.rows[i].by # p
                /\ run'[p].applied = run[p].applied]_vars
    /\ [][\A p \in AllProcs :
            (pc[p] = "m_ensure" /\ op[p] = "Migrate" /\ ctx[p] # "live" /\ pc'[p] # pc[p]) =>
                /\ pc'[p] = "done"
                /\ result'[p].status = "failed to ensure migrations table"
                /\ prod' = prod /\ shadow' = shadow]_vars
    /\ [](\A p \in AllProcs :
            (/\ Returned(p, "Migrate") /\ ctx[p] # "live"
             /\ result[p].status = "failed to apply migrations"
             /\ result[p].cause # "failed to check migration") =>
                /\ Committed(prod) = snap[p].rows \o RowsOf(run[p].applied)
                /\ run[p].applied \o result[p].names =
                      SubSeq(PendingAtStart(p), 1, Len(run[p].applied) + 1)
                /\ run[p].execd \subseteq Range(run[p].applied) \cup Range(result[p].names)
                /\ result[p].names[1] \notin prod.objs
                /\ Entries(prod, result[p].names[1]) = 0)

\* The deadline passed after the script of the second pending change had
\* been executed: the first change is applied, the second is not.
C15_Witness ==
    \E p \in AllProcs :
        /\ Returned(p, "Migrate")
        /\ ctx[p] = "deadline"
        /\ Len(run[p].applied) >= 1
        /\ result[p].names[1] \in run[p].execd
        /\ result[p].names[1] \notin prod.objs

-----------------------------------------------------------------------------
(* Failure, retry and the read-only calls (Spec) *)

\* C16: when the apply of a pending change fails on production, Migrate
\* returns the error naming it; the pending changes before it are applied
\* and recorded in order, the failed one and the later ones have no entry
\* and no object, and no script after the failed one was executed.  Migrate
\* returns nil only when every pending change is applied.  No run executes
\* the script of a change that was applied when it started; in the run after
\* a failed apply the failed change is pending again as long as its file is
\* there, and is applied when that run returns nil.
C16_FailedApplyStopsRun ==
    \A p \in AllProcs :
        Returned(p, "Migrate") =>
            /\ result[p].status = "failed to apply migrations" =>
                  /\ run[p].applied \o result[p].names =
                        SubSeq(PendingAtStart(p), 1, Len(run[p].applied) + 1)
                  /\ Committed(prod) = snap[p].rows \o RowsOf(run[p].applied)
                  /\ prod.objs = snap[p].objs \cup Range(run[p].applied)
                  /\ run[p].execd = Range(run[p].applied) \cup Range(result[p].names)
                  /\ \A m \in Range(PendingAtStart(p)) \ Range(run[p].applied) :
                        Entries(prod, m) = 0 /\ m \notin prod.objs
            /\ result[p].status = "ok" => run[p].applied = PendingAtStart(p)
            /\ run[p].execd \cap Range(AppliedAtStart(p)) = {}
            /\ run[p].retry # 0 =>
                  /\ run[p].retry \notin Range(AppliedAtStart(p))
                  /\ ReadFile(mpath[p], run[p].retry) # NoFile =>
                        /\ run[p].retry \in Range(PendingAtStart(p))
                        /\ result[p].status = "ok" => run[p].retry \in Range(run[p].applied)

\* The run after a failed apply has applied the failed change, and only it:
\* the change applied before the failure was left alone.
C16_Witness ==
    \E p \in AllProcs :
        /\ Returned(p, "Migrate")
        /\ run[p].retry # 0
        /\ result[p].status = "ok"
        /\ run[p].applied = <<run[p].retry>>
        /\ snap[p].rows # <<>>

\* C17: when Migrate has returned nil every file of the migrations
\* directory has exactly one entry and its table is there, so that no file
\* is pending; a GetPendingMigrations that follows, the files unchanged,
\* returns no change.
C17_SuccessLeavesNothingPending ==
    \A p \in AllProcs :
        /\ (Returned(p, "Migrate") /\ result[p].status = "ok") =>
              /\ \A n \in Range(ReadDir(mpath[p])) :
                    Entries(prod, n) = 1 /\ n \in prod.objs
              /\ \A n \in Range(ReadDir(mpath[p])) : IsApplied(prod, n)
        /\ (Returned(p, "GetPendingMigrations") /\ prevOK[p]) =>
              result[p].status = "ok" /\ result[p].names = <<>>

\* GetPendingMigrations has returned after a Migrate that left two entries.
C17_Witness ==
    \E p \in AllProcs :
        /\ Returned(p, "GetPendingMigrations")
        /\ prevOK[p]
        /\ Len(Committed(prod)) >= 2
        /\ Len(ReadDir(mpath[p])) >= 2

\* C18: GetAppliedMigrations and GetPendingMigrations succeed, on a database
\* without tracking relation too, which they create; they leave the entries
\* and the schema objects of production as they were, execute no script and
\* create no shadow database; the first returns the applied names in the
\* order of the tracking relation, the second the files that are not applied,
\* in name order.
C18_ReadOnlyCalls ==
    \A p \in AllProcs :
        (Returned(p, "GetAppliedMigrations") \/ Returned(p, "GetPendingMigrations")) =>
            /\ result[p].status = "ok"
            /\ prod.table
            /\ Committed(prod) = snap[p].rows
            /\ prod.objs = snap[p].objs
            /\ run[p].execd = {} /\ run[p].applied = <<>>
            /\ ~run[p].provisioned /\ run[p].shadowOps = {} /\ ~shadow.exists
            /\ result[p].names = IF op[p] = "GetAppliedMigrations"
                                 THEN AppliedAtStart(p)
                                 ELSE PendingAtStart(p)

\* GetPendingMigrations has returned a pending change from a database that
\* had no tracking relation.
C18_Witness ==
    \E p \in AllProcs :
        /\ Returned(p, "GetPendingMigrations")
        /\ ~snap[p].table
        /\ Len(result[p].names) >= 1

-----------------------------------------------------------------------------
(* Configuration (Spec) *)

\* C19: what a Migrate does is what the Options alone determine, as if the
\* environment were empty: its directory is Options.MigrationsPath, or
\* "./migrations", and without Options.DatabaseURL it does not call the
\* shadow test.
C19_OnlyOptionsMatter ==
    \A p \in AllProcs :
        Returned(p, "Migrate") =>
            /\ mpath[p] = IF opts.MigrationsPath # "" THEN opts.MigrationsPath
                          ELSE DefaultPath
            /\ opts.DatabaseURL = "" => ~run[p].shadowStarted /\ ~run[p].provisioned

\* C20: a Migrator built with MigrationsPath and DatabaseURL in its Options,
\* over a directory of valid files that holds the file of every applied
\* change as it was applied, returns nil and applies the pending changes,
\* whatever the environment holds.
C20_ExplicitOptionsSuffice ==
    \A p \in AllProcs :
        (/\ Returned(p, "Migrate")
         /\ opts.MigrationsPath = CustomPath /\ opts.DatabaseURL = ProdURL
         /\ \A n \in Range(ReadDir(mpath[p])) : ReadFile(mpath[p], n) = "create"
         /\ Range(AppliedAtStart(p)) \subseteq Range(ReadDir(mpath[p]))) =>
            /\ result[p].status = "ok"
            /\ run[p].applied = PendingAtStart(p)

-----------------------------------------------------------------------------
(* The empty directory and the validation (Spec) *)

\* C21: a Migrate on an empty migrations directory, with no applied entry in
\* the tracking relation, succeeds: the tracking relation is there afterwards,
\* no entry is added, no script is executed, and no shadow database is
\* provisioned (nor is the shadow test started or the missing-URL warning
\* printed).  With applied entries the same call is stopped by the validation
\* and still adds nothing.
C21_EmptyDirectory ==
    \A p \in SeqProcs :
        (Returned(p, "Migrate") /\ ReadDir(mpath[p]) = <<>>) =>
            /\ snap[p].rows = <<>> => result[p].status = "ok"
            /\ snap[p].rows # <<>> => result[p].status = "migration validation failed"
            /\ prod.table
            /\ Committed(prod) = snap[p].rows
            /\ prod.objs = snap[p].objs
            /\ run[p].execd = {} /\ run[p].applied = <<>>
            /\ ~run[p].provisioned /\ ~run[p].shadowStarted /\ run[p].shadowOps = {}
            /\ ~run[p].warned

\* A Migrate on a fresh database and an empty directory is back with nil; the
\* Migrator holds a shadow manager, and the tracking relation is new.
C21_Witness ==
    \E p \in SeqProcs :
        /\ Returned(p, "Migrate")
        /\ ReadDir(mpath[p]) = <<>>
        /\ result[p].status = "ok"
        /\ ~snap[p].table /\ prod.table
        /\ run[p].manager
        /\ shadow = EmptyDB(FALSE)

\* The applied names that have no file in the directory of caller p.
MissingNames(p) ==
    {prod.rows[i].name : i \in {j \in 1..Len(prod.rows) : prod.rows[j].by = 0}}
        \ {n \in DOMAIN files : mpath[p] = CustomPath /\ files[n] # NoFile}

\* C22: ValidateExistingMigrations fails if and only if some applied name has
\* no .sql file in the migrations directory; its error then lists every such
\* name, once each, in the order of listApplied; otherwise it succeeds and
\* Migrate goes on to load the files; in both cases the tracking relation,
\* the schema and the files are left as they were.
C22_ValidateExisting ==
    [][\A p \in SeqProcs :
         (pc[p] = "m_validate" /\ pc'[p] # "m_validate") =>
             /\ (pc'[p] = "done") <=> (MissingNames(p) # {})
             /\ pc'[p] # "done" => pc'[p] = "m_load"
             /\ pc'[p] = "done" =>
                    /\ result'[p].status = "migration validation failed"
                    /\ Range(result'[p].names) = MissingNames(p)
                    /\ Len(result'[p].names) = Cardinality(MissingNames(p))
                    /\ result'[p].names =
                           SelectSeq(AppliedAtStart(p), LAMBDA n : n \in MissingNames(p))
             /\ prod' = prod /\ files' = files]_vars

\* The validation has failed and named two applied changes without a file.
C22_Witness ==
    \E p \in SeqProcs :
        /\ Returned(p, "Migrate")
        /\ result[p].status = "migration validation failed"
        /\ result[p].cause = "applied migrations are missing from filesystem"
        /\ Len(result[p].names) = 2
        /\ Committed(prod) = snap[p].rows

-----------------------------------------------------------------------------
(* Validator.FindNewMigrations (SpecCancel) *)

\* The names of a list of MigrationFile values.
NamesOf(fs) == [i \in 1..Len(fs) |-> fs[i].Name]

\* The names production's tracking relation holds.
AppliedNames == {prod.rows[i].name : i \in {j \in 1..Len(prod.rows) : prod.rows[j].by = 0}}

\* C23: FindNewMigrations returns exactly the loaded files whose name is not
\* in the tracking relation, each once and in the order they were loaded in
\* (at every point of its loop the result so far is that selection of the
\* files looked at so far); when an IsApplied query fails the call returns
\* the error of that query, naming the file, in place of a list, and a
\* Migrate goes no further.
C23_SelectPending ==
    \A p \in SeqProcs :
        /\ pc[p] = "m_findnew" =>
               /\ idx[p] <= Len(mfiles[p]) + 1
               /\ NamesOf(newm[p]) =
                      SelectSeq(SubSeq(NamesOf(mfiles[p]), 1, idx[p] - 1),
                                LAMBDA n : n \notin AppliedNames)
               /\ \A i \in 1..Len(newm[p]) : newm[p][i] \in Range(mfiles[p])
        /\ (Returned(p, "GetPendingMigrations") /\ result[p].status = "ok") =>
               /\ result[p].names =
                      SelectSeq(ReadDir(mpath[p]), LAMBDA n : n \notin AppliedNames)
               /\ \A i, j \in 1..Len(result[p].names) :
                      result[p].names[i] = result[p].names[j] => i = j
        /\ (pc[p] = "done" /\ result[p].status = "failed to find new migrations") =>
               /\ ctx[p] # "live"
               /\ result[p].cause = "failed to check migration"
               /\ Len(result[p].names) = 1
               /\ result[p].names[1] \in Range(ReadDir(mpath[p]))
               /\ ~run[p].shadowStarted /\ run[p].execd = {}
               /\ Committed(prod) = snap[p].rows

\* GetPendingMigrations is back with one pending name while the directory
\* also holds a file whose change is applied.
C23_Witness ==
    \E p \in SeqProcs :
        /\ Returned(p, "GetPendingMigrations")
        /\ result[p].status = "ok"
        /\ Len(result[p].names) = 1
        /\ Len(ReadDir(mpath[p])) = 2
        /\ AppliedNames # {}

-----------------------------------------------------------------------------
(* The phases of Manager.TestNewMigrations (Spec) *)

\* The phase of TestNewMigrations a caller at label l with transaction t is
\* in: 1 provisioning (setupShadowDatabase), 2 replaying (the shadow tracker
\* and applyExistingMigrationsToShadow), 3 testing (testMigrationsOnShadow),
\* 4 teardown (the deferred cleanup); 0 outside of TestNewMigrations.
ShadowPhase(l, t) ==
    CASE l \in {"s_drop", "s_create"} -> 1
      [] l \in {"s_ensure", "s_list", "s_replay"} -> 2
      [] l \in {"t_exec", "t_insert", "t_commit"} /\ t.caller = "replay" -> 2
      [] l = "s_test" -> 3
      [] l \in {"t_exec", "t_insert", "t_commit"} /\ t.caller = "test" -> 3
      [] l = "s_cleanup" -> 4
      [] OTHER -> 0

\* The names in a set of MigrationFile values.
NameSet(fs) == {f.Name : f \in fs}

\* C24: TestNewMigrations goes from provisioning to replaying to testing to
\* teardown, in that order, and on the first failure it goes straight to the
\* teardown (from provisioning, where nothing was created by it, straight to
\* its caller) and returns that failure: production is applied to only after
\* a teardown that follows a test of every new migration; after a failed
\* replay no new migration was run on the shadow database; after a failed
\* test the error names the migration that failed and no later one was run.
C24_ShadowTesterPhases ==
    /\ [][\A p \in SeqProcs :
            LET a == ShadowPhase(pc[p], tx[p])
                b == ShadowPhase(pc'[p], tx'[p])
            IN /\ (a = 0 /\ b # 0) => (b = 1 /\ pc[p] = "m_findnew")
               /\ (a # 0 /\ b # 0) =>
                      \/ b = a
                      \/ b = a + 1 /\ perr'[p] = NoErr
                      \/ b = 4 /\ a \in {2, 3} /\ perr'[p] # NoErr
               /\ (a = 2 /\ b = 3) => idx[p] > Len(replay[p])
               /\ (a = 3 /\ b = 4 /\ perr'[p] = NoErr) =>
                      NameSet(run[p].tested) = Range(NamesOf(newm[p]))
               /\ (a # 0 /\ b = 0) =>
                      \/ /\ a = 1 /\ pc'[p] = "done"
                         /\ result'[p].status = "shadow database test failed"
                      \/ /\ a = 4 /\ perr[p] = NoErr /\ pc'[p] = "m_apply"
                      \/ /\ a = 4 /\ perr[p] # NoErr /\ pc'[p] = "done"
                         /\ result'[p] = ShadowError(perr[p])]_vars
    /\ [](\A p \in SeqProcs :
            (Returned(p, "Migrate") /\ run[p].shadowStarted) =>
                /\ result[p].cause = "failed to apply existing migrations to shadow" =>
                       /\ run[p].shadowOps \subseteq Range(AppliedAtStart(p))
                       /\ run[p].shadowOps \cap Range(PendingAtStart(p)) = {}
                       /\ run[p].tested = {} /\ run[p].shadowFailed = {}
                       /\ run[p].execd = {}
                       /\ Len(result[p].names) = 1
                       /\ result[p].names[1] \in Range(AppliedAtStart(p))
                /\ result[p].cause = "failed to test migrations on shadow" =>
                       \E k \in 1..Len(PendingAtStart(p)) :
                           /\ result[p].names = <<PendingAtStart(p)[k]>>
                           /\ run[p].shadowFailed = {PendingAtStart(p)[k]}
                           /\ run[p].shadowOps \cap Range(PendingAtStart(p)) =
                                  Range(SubSeq(PendingAtStart(p), 1, k))
                           /\ NameSet(run[p].tested) =
                                  Range(SubSeq(PendingAtStart(p), 1, k - 1))
                           /\ Range(AppliedAtStart(p)) \subseteq run[p].shadowOps
                           /\ run[p].execd = {}
                /\ result[p].status = "ok" =>
                       /\ NameSet(run[p].tested) = Range(PendingAtStart(p))
                       /\ run[p].shadowFailed = {})

\* A shadow test has failed at the first of two new migrations, and the
\* second one was not run on the shadow database.
C24_Witness ==
    \E p \in SeqProcs :
        /\ Returned(p, "Migrate")
        /\ run[p].provisioned
        /\ result[p].cause = "failed to test migrations on shadow"
        /\ Len(PendingAtStart(p)) = 2
        /\ result[p].names = <<PendingAtStart(p)[1]>>
        /\ PendingAtStart(p)[2] \notin run[p].shadowOps
        /\ ~shadow.exists

-----------------------------------------------------------------------------
(* Production during the shadow test (SpecCancel) *)

-----------------------------------------------------------------------------
(* Two Migrate calls and the one shadow database (SpecConc) *)

\* C26 as stated: while a Migrate call is replaying or testing on the shadow
\* database it created, no step of another Migrate call drops that database,
\* and the shadow test of each call ends as it would end alone, that is,
\* for the CREATE TABLE scripts of the test, with no error.
C26_ShadowNotDisturbed ==
    /\ [][\A p, q \in ConcProcs :
            (/\ p # q
             /\ ShadowPhase(pc[p], tx[p]) \in {2, 3}
             /\ run[p].provisioned /\ shadow.exists
             /\ pc'[q] # pc[q]) => shadow'.exists]_vars
    /\ [](\A p \in ConcProcs :
            Returned(p, "Migrate") => result[p].status # "shadow database test failed")

-----------------------------------------------------------------------------
(* The replay on the shadow database (SpecShadow) *)

\* The names of the committed rows of the shadow database's tracking relation,
\* in the order they were applied there.
ShadowApplied == [i \in 1..Len(Committed(shadow)) |-> Committed(shadow)[i].name]

\* C27: the replay applies the changes production's listApplied returned, in
\* that order, each with ApplyMigration on the shadow database (the objects of
\* the script and the tracking row appear together, at the commit), and the
\* first new migration is tested only when all of them are applied there:
\* during the replay the shadow database holds the replayed prefix and
\* nothing else, during the test it holds all applied changes followed by
\* the new migrations tested so far.
C27_ReplayBeforeTest ==
    /\ [][\A p \in SeqProcs :
            (ShadowPhase(pc[p], tx[p]) \in {2, 3} /\ Committed(shadow') # Committed(shadow)) =>
                /\ pc[p] = "t_commit" /\ tx[p].ins
                /\ Committed(shadow') =
                       Append(Committed(shadow), [name |-> tx[p].name, by |-> 0])
                /\ shadow'.objs = shadow.objs \cup ScriptObjects(tx[p].name, tx[p].content)
                /\ tx[p].content = files[tx[p].name]]_vars
    /\ [](\A p \in SeqProcs :
            /\ (pc[p] = "s_replay" \/ ShadowPhase(pc[p], tx[p]) = 3) =>
                   replay[p] = AppliedAtStart(p)
            /\ ShadowPhase(pc[p], tx[p]) = 2 =>
                   /\ \E k \in 0..Len(replay[p]) : ShadowApplied = SubSeq(replay[p], 1, k)
                   /\ pc[p] = "s_replay" => ShadowApplied = SubSeq(replay[p], 1, idx[p] - 1)
                   /\ run[p].tested = {} /\ run[p].shadowFailed = {}
            /\ ShadowPhase(pc[p], tx[p]) = 3 =>
                   /\ \E k \in 0..Len(newm[p]) :
                          ShadowApplied = AppliedAtStart(p) \o SubSeq(NamesOf(newm[p]), 1, k)
                   /\ \A n \in Range(AppliedAtStart(p)) :
                          ScriptObjects(n, files[n]) \subseteq shadow.objs)

\* The test of a new migration is about to begin on a shadow database that
\* holds the two applied changes, which production applied in the order 2, 1.
C27_Witness ==
    \E p \in SeqProcs :
        /\ pc[p] = "s_test" /\ idx[p] = 1
        /\ Len(newm[p]) = 1
        /\ GetAppliedMigrations(prod) = <<2, 1>>
        /\ ShadowApplied = <<2, 1>>
        /\ shadow.objs = {1, 2}

-----------------------------------------------------------------------------
(* A shadow database left by an interrupted run (SpecShadow) *)

\* The new migrations of the call of p that have a syntax error, in name order.
FailingOnShadow(p) == SelectSeq(PendingAtStart(p), LAMBDA n : files[n] = "syntax")

\* C28: whatever setupShadowDatabase finds under the shadow database's name,
\* it drops it and creates a new database: when the replay starts the shadow
\* database holds no entry and no object, and the verdict of the shadow test
\* is the one the files decide, the first new migration whose script fails
\* or, without one, success and the application of every new migration.
C28_LeftoverShadowReplaced ==
    /\ [][\A p \in SeqProcs :
            /\ (pc[p] = "s_drop" /\ pc'[p] \notin {"s_drop", "idle"}) =>
                   (pc'[p] = "s_create" /\ shadow' = EmptyDB(FALSE))
            /\ (pc[p] = "s_create" /\ pc'[p] \notin {"s_create", "idle"}) =>
                   (pc'[p] = "s_ensure" /\ shadow' = EmptyDB(TRUE))]_vars
    /\ [](\A p \in SeqProcs :
            /\ pc[p] = "s_ensure" => shadow = EmptyDB(TRUE)
            /\ pc[p] = "s_list" => shadow = [EmptyDB(TRUE) EXCEPT !.table = TRUE]
            /\ (pc[p] = "s_replay" /\ idx[p] = 1) =>
                   shadow = [EmptyDB(TRUE) EXCEPT !.table = TRUE]
            /\ (Returned(p, "Migrate") /\ PendingAtStart(p) # <<>>) =>
                   /\ run[p].provisioned
                   /\ FailingOnShadow(p) # <<>> =>
                          /\ result[p].status = "shadow database test failed"
                          /\ result[p].cause = "failed to test migrations on shadow"
                          /\ result[p].names = <<FailingOnShadow(p)[1]>>
                   /\ FailingOnShadow(p) = <<>> =>
                          /\ result[p].status \in {"ok", "failed to apply migrations"}
                          /\ NameSet(run[p].tested) = Range(PendingAtStart(p))
                          /\ run[p].shadowFailed = {})

\* A Migrate has succeeded although it found a shadow database that held the
\* tracking entry and the table of the change it went on to test and apply.
C28_Witness ==
    \E p \in SeqProcs :
        /\ Returned(p, "Migrate")
        /\ result[p].status = "ok"
        /\ run[p].leftover.found
        /\ run[p].leftover.rows # <<>>
        /\ run[p].leftover.objs \cap Range(run[p].applied) # {}
        /\ ~shadow.exists

-----------------------------------------------------------------------------
(* Production receives what the shadow database accepted (Spec) *)

\* C29: in a Migrate run of a Migrator that has a shadow manager or finds
\* DATABASE_URL set, every transaction opened on production applies a name
\* and script that testMigrationsOnShadow committed on the shadow database
\* earlier in this run, after every change production held had been replayed
\* there; so does every script executed and every entry recorded.
C29_AppliedWasTested ==
    \A p \in SeqProcs :
        (op[p] = "Migrate" /\ (run[p].manager \/ env.DATABASE_URL # "")) =>
            /\ (pc[p] \in {"t_exec", "t_insert", "t_commit"} /\ tx[p].db = "prod") =>
                   /\ [Name |-> tx[p].name, Content |-> tx[p].content] \in run[p].tested
                   /\ tx[p].name \notin run[p].shadowFailed
                   /\ Range(AppliedAtStart(p)) \subseteq run[p].shadowOps
                   /\ run[p].provisioned /\ ~shadow.exists
            /\ \A n \in run[p].execd \cup Range(run[p].applied) :
                   /\ n \in NameSet(run[p].tested)
                   /\ n \notin run[p].shadowFailed
            /\ run[p].execd # {} =>
                   /\ Range(AppliedAtStart(p)) \subseteq run[p].shadowOps
                   /\ NameSet(run[p].tested) = Range(PendingAtStart(p))

\* A Migrate that built its shadow manager from DATABASE_URL when it was
\* called has replayed one change, tested another and applied it.
C29_Witness ==
    \E p \in SeqProcs :
        /\ Returned(p, "Migrate")
        /\ result[p].status = "ok"
        /\ ~run[p].manager /\ run[p].shadowStarted
        /\ Len(AppliedAtStart(p)) = 1
        /\ Len(run[p].applied) = 1
        /\ NameSet(run[p].tested) = Range(run[p].applied)

-----------------------------------------------------------------------------
(* The order of listApplied and the order of the names (SpecCancel) *)

\* A list of names is in ascending name order.
IsSorted(s) == \A i, j \in 1..Len(s) : i < j => s[i] < s[j]

\* C30 as stated: change files are only added, and after every Migrate run
\* the order of GetAppliedMigrations, which is by applied_at, is the order of
\* the names.
C30_ListAppliedInNameOrder ==
    \A p \in SeqProcs :
        (Returned(p, "Migrate") /\ result[p].status = "ok") =>
            IsSorted(GetAppliedMigrations(prod))

\* C30: change files are only added.  A Migrate run appends the names it
\* applies, in ascending name order, to the list GetAppliedMigrations gave
\* when it started; so the list is in name order after the run if and only
\* if it was before and every name the run applied sorts after every name
\* applied before the run.  A file added with a name below an applied one is
\* applied by the next run and listed after the higher name.
C30_ListAppliedOrder ==
    \A p \in SeqProcs :
        Returned(p, "Migrate") =>
            /\ GetAppliedMigrations(prod) = AppliedAtStart(p) \o run[p].applied
            /\ IsSorted(run[p].applied)
            /\ Range(run[p].applied) \subseteq Range(PendingAtStart(p))
            /\ IsSorted(GetAppliedMigrations(prod)) <=>
                   /\ IsSorted(AppliedAtStart(p))
                   /\ \A m \in Range(AppliedAtStart(p)) :
                          \A n \in Range(run[p].applied) : m < n

\* After 2 was applied, file 1 was added and the next Migrate applied it:
\* GetAppliedMigrations lists 2, 1.
C30_Witness ==
    \E p \in SeqProcs :
        /\ Returned(p, "Migrate")
        /\ result[p].status = "ok"
        /\ AppliedAtStart(p) = <<2>>
        /\ run[p].applied = <<1>>
        /\ GetAppliedMigrations(prod) = <<2, 1>>

-----------------------------------------------------------------------------
(* A shadow database that cannot be dropped (SpecDrop) *)

\* C31: a DROP DATABASE that fails in the cleanup function of the shadow test
\* or in the EnsureCleanup of step 7 changes no result: the cleanup function
\* hands on the verdict the test reached, a passed test is followed by the
\* application to production, step 7 returns success, and the value Migrate
\* returns is the one the files decide.
C31_DropFailureOnlyWarns ==
    /\ [][\A p \in SeqProcs :
            /\ (pc[p] = "s_cleanup" /\ pc'[p] # "s_cleanup") =>
                   IF perr[p] = NoErr
                   THEN pc'[p] = "m_apply" /\ prod' = prod
                   ELSE pc'[p] = "done" /\ result'[p] = ShadowError(perr[p])
            /\ (pc[p] = "m_final" /\ pc'[p] # "m_final") =>
                   /\ pc'[p] = "done"
                   /\ result'[p] = Ok(run[p].applied)]_vars
    /\ [](\A p \in SeqProcs :
            (Returned(p, "Migrate") /\ run[p].provisioned) =>
                /\ FailingOnShadow(p) # <<>> =>
                       /\ result[p].status = "shadow database test failed"
                       /\ result[p].cause = "failed to test migrations on shadow"
                       /\ result[p].names = <<FailingOnShadow(p)[1]>>
                       /\ run[p].applied = <<>>
                /\ FailingOnShadow(p) = <<>> =>
                       /\ result[p].status \in {"ok", "failed to apply migrations"}
                       /\ NameSet(run[p].tested) = Range(PendingAtStart(p))
                       /\ (result[p].status = "ok" =>
                               run[p].applied = PendingAtStart(p)))

\* A Migrate has applied a change and succeeded although neither the cleanup
\* function nor EnsureCleanup could drop the shadow database, which is still
\* there.
C31_Witness ==
    \E p \in SeqProcs :
        /\ Returned(p, "Migrate")
        /\ result[p].status = "ok"
        /\ run[p].dropFailed
        /\ run[p].applied # <<>>
        /\ shadow.exists

-----------------------------------------------------------------------------
(* Production ends with what the shadow database held (SpecShadow) *)

\* C32: when a Migrate that tested new migrations on the shadow database has
\* returned success, the names production's tracker holds, in the order of
\* its rows, are the names the shadow database's tracker held when
\* testMigrationsOnShadow returned nil: the names production held at the
\* start, in their order, followed by the new migrations in name order.
C32_ProductionEqualsShadowAtPass ==
    \A p \in SeqProcs :
        (Returned(p, "Migrate") /\ result[p].status = "ok" /\ run[p].provisioned) =>
            /\ TrackerNames(prod) = run[p].atPass
            /\ run[p].atPass = AppliedAtStart(p) \o PendingAtStart(p)
            /\ IsSorted(PendingAtStart(p))

\* A successful Migrate found two applied changes in an order that is not the
\* name order, replayed them and applied a third one.
C32_Witness ==
    \E p \in SeqProcs :
        /\ Returned(p, "Migrate")
        /\ result[p].status = "ok"
        /\ run[p].provisioned
        /\ Len(AppliedAtStart(p)) = 2
        /\ ~IsSorted(AppliedAtStart(p))
        /\ Len(run[p].applied) = 1
        /\ run[p].atPass = TrackerNames(prod)

-----------------------------------------------------------------------------
(* Two concurrent callers both return (SpecConcFair) *)

\* C33: each of two goroutines that call Migrate on the same database at the
\* same time gets its return value, success or error: a statement that waits
\* for the other caller's open transaction goes on when that transaction
\* ends, a name or an object the other caller committed makes the statement
\* fail, and a shadow database the other caller dropped makes the shadow
\* test fail.
C33_BothCallsReturn ==
    /\ <>(\A p \in ConcProcs : pc[p] = "done" /\ result[p] # NoResult)
    /\ \A p \in ConcProcs : (pc[p] = "t_exec" /\ ExecBlocked(p)) ~> pc[p] = "done"

\* A caller has to wait with its CREATE TABLE for the open transaction of the
\* other caller on production.
C33_Witness ==
    \E p \in ConcProcs :
        /\ pc[p] = "t_exec"
        /\ tx[p].db = "prod" /\ tx[p].alive
        /\ ExecBlocked(p)

-----------------------------------------------------------------------------
(* Tracker.Record (SpecRecord) *)

\* C34: the INSERT of Record(n) adds one entry for n, after the entries that
\* are there, and returns nil when no entry holds n; when an entry holds n
\* (or the relation does not exist) it returns an error and the relation is
\* as it was.  No name ever has two entries.
C34_Record ==
    /\ [][\A p \in ConcProcs :
            (pc[p] = "r_insert" /\ pc'[p] = "done") =>
                LET n == tx[p].name IN
                IF prod.table /\ Entries(prod, n) = 0
                THEN /\ prod' = [prod EXCEPT !.rows = Append(@, [name |-> n, by |-> 0])]
                     /\ Entries(prod', n) = 1
                     /\ result'[p] = Ok(<<n>>)
                ELSE /\ prod' = prod
                     /\ result'[p].status = "failed to record migration"
                     /\ result'[p].cause = IF prod.table THEN "unique constraint"
                                           ELSE "relation does not exist"]_vars
    /\ [](\A n \in Names : Entries(prod, n) <= 1)

\* One caller has recorded a name and the Record of the same name by the
\* other caller has failed on the constraint.
C34_Witness ==
    \E p, q \in ConcProcs :
        /\ Returned(p, "Record") /\ result[p].status = "ok"
        /\ Returned(q, "Record") /\ result[q].cause = "unique constraint"
        /\ result[q].names = result[p].names
        /\ Entries(prod, result[p].names[1]) = 1

-----------------------------------------------------------------------------
(* Tracker.EnsureMigrationsTable called directly (SpecRecord) *)

\* C35: a call of EnsureMigrationsTable, the first or a later one, with or
\* without entries, returns nil and leaves the tracking relation in place
\* with the rows it had, committed or in flight, in their order; the schema
\* objects stay as they are.
C35_EnsureSchemaIdempotent ==
    /\ [][\A p \in ConcProcs :
            (pc[p] = "m_ensure" /\ op[p] = "EnsureMigrationsTable" /\ pc'[p] # "m_ensure") =>
                /\ pc'[p] = "done"
                /\ result'[p] = Ok(<<>>)
                /\ prod'.table
                /\ prod'.rows = prod.rows
                /\ prod'.objs = prod.objs
                /\ prod'.exists = prod.exists]_vars
    /\ [](\A p \in ConcProcs :
            Returned(p, "EnsureMigrationsTable") =>
                /\ result[p].status = "ok"
                /\ prod.table
                /\ \A i \in 1..Len(snap[p].rows) : Entries(prod, snap[p].rows[i].name) = 1)

\* EnsureMigrationsTable has returned nil on a database that had the relation
\* and two entries, which are still there.
C35_Witness ==
    \E p \in ConcProcs :
        /\ Returned(p, "EnsureMigrationsTable")
        /\ result[p].status = "ok"
        /\ snap[p].table
        /\ Len(snap[p].rows) = 2
        /\ Committed(prod) = snap[p].rows

-----------------------------------------------------------------------------
(* The entries the Loader and the Validator look at (SpecLoader) *)

\* The entries of the migrations directory whose name ends in ".sql", in name
\* order.
ScriptEntries == SortedSeq({n \in Names : files[n] \notin {NoFile, "other"}})

\* C36: the list GetMigrationFiles returns holds one MigrationFile for each
\* entry whose name ends in ".sql" and none for another entry, in name order,
\* each with the entry's name and the whole of its content; when one of
\* these entries cannot be read the call fails and names it.
\* ValidateExistingMigrations looks the applied names up among the same
\* entries: it reports exactly the applied names that are none of them.
C36_LoaderAndValidatorAgree ==
    \A p \in SeqProcs :
        /\ pc[p] \in {"m_findnew", "m_apply", "t_begin", "t_exec", "t_insert",
                      "t_commit", "m_final"} =>
               /\ NamesOf(mfiles[p]) = ScriptEntries
               /\ \A i \in 1..Len(mfiles[p]) :
                      mfiles[p][i].Content = files[mfiles[p][i].Name]
        /\ (pc[p] = "done" /\ result[p].status = "failed to get migration files") =>
               /\ result[p].cause = "failed to create migration file"
               /\ \E i \in 1..Len(ScriptEntries) :
                      /\ result[p].names = <<ScriptEntries[i]>>
                      /\ files[ScriptEntries[i]] = "dir"
                      /\ \A j \in 1..(i - 1) : files[ScriptEntries[j]] # "dir"
        /\ (pc[p] = "done" /\ result[p].status \in {"ok", "failed to apply migrations"}) =>
               \A n \in Range(ScriptEntries) : files[n] # "dir"
        /\ (Returned(p, "Migrate") /\ result[p].status = "migration validation failed") =>
               /\ result[p].names # <<>>
               /\ result[p].names =
                      SelectSeq(AppliedAtStart(p), LAMBDA n : n \notin Range(ScriptEntries))
        /\ (Returned(p, "Migrate") /\ result[p].status # "migration validation failed") =>
               Range(AppliedAtStart(p)) \subseteq Range(ScriptEntries)

\* A Migrate has passed the validation with a directory in place of an
\* applied change file, next to an entry that is no change file, and failed
\* to load the directory.
C36_Witness ==
    \E p \in SeqProcs :
        /\ Returned(p, "Migrate")
        /\ result[p].status = "failed to get migration files"
        /\ \E n \in Range(AppliedAtStart(p)) : files[n] = "dir"
        /\ \E n \in Names : files[n] = "other"

-----------------------------------------------------------------------------
(* The statements and connections of setupShadowDatabase (SpecDSN) *)

\* C37: every name that is interpolated into a DROP DATABASE or CREATE
\* DATABASE statement has been validated: a statement is sent only with a
\* name that is a plain identifier.
C37_OnlyValidatedNamesInDDL ==
    \A s \in issued :
        s.kind \in {"DROP DATABASE IF EXISTS", "CREATE DATABASE"} => IsIdentifier(s.text)

\* C38: whatever connection string NewWithURL accepted, the shadow connection
\* is a connection to the database named production's name followed by
\* _gi_mig_shadow_db, the administrative connection is one to the database
\* postgres, and neither is a connection to production.
C38_RewrittenConnections ==
    \A s \in issued :
        /\ s.kind = "shadow" => TargetDB(s.text) = ShadowDBName
        /\ s.kind = "admin" => TargetDB(s.text) = <<"postgres">>
        /\ s.kind \in {"shadow", "admin"} => TargetDB(s.text) # CurrentDBName

=============================================================================
